---------------------------- MODULE Spec2Model ----------------------------
(***************************************************************************)
(* zipfs: the archive-to-workspace lifecycle of one session.               *)
(*                                                                         *)
(* The model follows one session from the state CreateSession leaves it in *)
(* (workspace extracted, metadata written, state "open").  Client          *)
(* processes run the handlers of the adapters (sync, close, the workspace  *)
(* operations with their trailing TouchSession) one system call at a time; *)
(* the outside world may overwrite the source archive, a process may crash *)
(* at any step, and a rename or a write may fail.                          *)
(*                                                                         *)
(* Files are modelled by their content.  An archive is a record            *)
(*   [entries |-> sequence of entries, by |-> who wrote it]                *)
(* where `by` stands for everything that makes two archives with equal     *)
(* entries differ byte for byte (timestamps, compression, entry order).    *)
(***************************************************************************)
EXTENDS Integers, Sequences, FiniteSets, TLC

\* ------------------------------------------------------------------ bounds

\* Client processes that run operations concurrently (Spec).
NumProcs == 2
\* Operations started in one behaviour of the sequential specification.
MaxOps == 3
\* Operations started in one behaviour of the concurrent specification.
MaxConcurrentOps == 2
\* Process crashes in one behaviour.
MaxCrashes == 1
\* Injected I/O failures (a failing rename, a failing write) in one behaviour.
MaxFaults == 1
\* Clients of the lock manager in SpecLock.
NumClients == 3
\* Largest backup_rotation_depth configured in SpecDepth.
MaxDepth == 3
\* Entries of the archives handed to Extract in SpecExtract.
MaxEntries == 2
\* Largest max_sessions configured in SpecOpen and SpecOpenSeq.
MaxSessionLimit == 2
\* Turns of acquire's loop that fit into the timeout (timeout / 100 ms).
MaxPolls == 2

\* --------------------------------------------------- program constants

\* DefaultConfig().Defaults.BackupRotationDepth
BackupRotationDepth == 3
\* DefaultConfig().Security.MaxCompressionRatio
MaxCompressionRatio == 100
\* DefaultConfig().Security.MaxFileCount
MaxFileCount == 100000
\* DefaultConfig().Security.MaxExtractedSizeBytes (1 GiB)
MaxExtractedSizeBytes == 1073741824
\* DefaultConfig().Security.MaxSessions
MaxSessions == 32
\* GetSession: the shortest identifier it takes as an identifier prefix.
MinPrefixLen == 4

\* ------------------------------------------------------------- the data

Procs == 1 .. NumProcs

\* A path that names nothing.
NoFile == [kind |-> "none", entries |-> <<>>, by |-> ""]
\* A file at an archive path that is not a complete zip archive (an empty
\* temp file, or an archive whose tail was never written).
Truncated == [kind |-> "truncated", entries |-> <<>>, by |-> ""]

\* Relative paths under contents/, as sequences of components.
Root == <<>>
Paths == { <<"b">>, <<"d">>, <<"d", "a">> }
\* The order filepath.Walk visits them in (lexical).
WalkOrder == << <<"b">>, <<"d">>, <<"d", "a">> >>
\* Paths a caller may hand to WriteFile and DeleteFile: "." is valid too.
RelPaths == Paths \cup { <<".">>, <<"..", "original.zip">> }

\* File contents a caller writes: a few bytes, and a long run of zero bytes.
Bytes == { "x", "zeros" }
\* A node of the contents tree.
Absent == "absent"
Dir == "dir"
\* Symbolic links someone put into contents/, to a file and to a directory
\* outside it, and what a read through the first one returns.
Symlinks == { "link-to-file", "link-to-dir" }
Outside == "outside"
Nodes == Bytes \cup { Absent, Dir } \cup Symlinks

\* len(content)
UncompressedSize(b) == IF b = "zeros" THEN 1048576 ELSE 1
\* Length of the deflate stream archive/zip writes for the content: a run of
\* 2^20 zero bytes deflates to about 1 KiB, a single byte to 3 bytes.
Deflate(b) == IF b = "zeros" THEN 1040 ELSE 3

\* A size in bytes (uint64, or wider for an exact result) in three parts:
\* <<a, b, c>> is a * 2^60 + b * 2^30 + c, with b and c below 2^30.
Limb == 2 ^ 30
Wide(n) == <<0, n \div Limb, n % Limb>>
\* 2^63 bytes.
Half64 == <<8, 0, 0>>

\* The exact sum of two sizes.
Add(x, y) ==
    LET c == x[3] + y[3]
        b == x[2] + y[2] + c \div Limb
    IN  <<x[1] + y[1] + b \div Limb, b % Limb, c % Limb>>

\* uint64 arithmetic: what lies above bit 63 is dropped.
Wrap64(x) == <<x[1] % 16, x[2], x[3]>>

\* x > y.
Greater(x, y) ==
    \/ x[1] > y[1]
    \/ x[1] = y[1] /\ x[2] > y[2]
    \/ x[1] = y[1] /\ x[2] = y[2] /\ x[3] > y[3]

\* The exact product of a size and a number.
RECURSIVE Times(_, _)
Times(x, k) ==
    IF k = 0 THEN Wide(0)
    ELSE LET h == Times(Add(x, x), k \div 2)
         IN  IF k % 2 = 1 THEN Add(x, h) ELSE h

\* filepath.Clean, component by component: "." vanishes, ".." takes the
\* component before it away, and stays when there is none to take.
RECURSIVE CleanFrom(_, _, _)
CleanFrom(path, i, acc) ==
    IF i > Len(path) THEN acc
    ELSE IF path[i] = "." THEN CleanFrom(path, i + 1, acc)
    ELSE IF path[i] = ".." /\ acc # <<>> /\ acc[Len(acc)] # ".."
         THEN CleanFrom(path, i + 1, SubSeq(acc, 1, Len(acc) - 1))
    ELSE CleanFrom(path, i + 1, Append(acc, path[i]))

Clean(rel) == CleanFrom(rel, 1, <<>>)
\* filepath.Dir of a cleaned relative path.
Parent(path) == IF path = Root THEN Root ELSE SubSeq(path, 1, Len(path) - 1)
IsPrefix(a, b) == Len(a) <= Len(b) /\ SubSeq(b, 1, Len(a)) = a

\* A contents tree: whether contents/ exists, and the node at each path.
EmptyTree == [exists |-> TRUE, node |-> [q \in Paths |-> Absent]]
\* contents/ does not exist.
NoDir == [exists |-> FALSE, node |-> [q \in Paths |-> Absent]]

\* The node at a cleaned path of a contents tree (contents/ itself is a
\* directory).
NodeAt(tree, path) ==
    IF ~tree.exists THEN Absent
    ELSE IF path = Root THEN Dir
    ELSE IF path \in Paths THEN tree.node[path] ELSE Absent

\* os.MkdirAll(path): every missing ancestor and path itself become
\* directories; fails when one of them is a file.
MkdirAllOk(tree, path) ==
    \A q \in Paths : IsPrefix(q, path) => NodeAt(tree, q) \in { Absent, Dir }

MkdirAll(tree, path) ==
    [exists |-> TRUE,
     node |-> [q \in Paths |-> IF IsPrefix(q, path) THEN Dir ELSE tree.node[q]]]

\* os.RemoveAll(path) below contents/.
RemoveAll(tree, path) ==
    IF path = Root THEN NoDir
    ELSE [tree EXCEPT !.node =
             [q \in Paths |-> IF IsPrefix(path, q) THEN Absent ELSE tree.node[q]]]

\* ------------------------------------------------------------- archives

FileEntry(path, content) ==
    [name |-> path, dir |-> FALSE, bytes |-> content,
     usize |-> Wide(UncompressedSize(content)),
     csize |-> Wide(Deflate(content))]

\* A file entry whose header declares other sizes than its data has.
DeclaredEntry(path, content, usize, csize) ==
    [name |-> path, dir |-> FALSE, bytes |-> content,
     usize |-> usize, csize |-> csize]

\* The sizes in the entry's header are those of its data; when they are
\* not, reading the entry to its end fails.
SizesAsStored(e) ==
    /\ e.usize = Wide(UncompressedSize(e.bytes))
    /\ e.csize = Wide(Deflate(e.bytes))

DirEntry(path) ==
    [name |-> path, dir |-> TRUE, bytes |-> "",
     usize |-> Wide(0), csize |-> Wide(0)]

\* A faulty walk: the link bit of the file mode is never seen.
ModeSymlinkNever(node) == FALSE

\* info.Mode()&os.ModeSymlink != 0, info being the Lstat result filepath.Walk
\* hands over.
ModeSymlink(node) == node \in Symlinks

\* os.Open and io.Copy: the bytes read at a path (through a link, the bytes
\* of its target).
OpenRead(node) == IF node \in Symlinks THEN Outside ELSE node

\* The entries Repack's walk writes, in walk order from position i on.
RECURSIVE WalkEntries(_, _)
WalkEntries(tree, i) ==
    IF i > Len(WalkOrder) THEN <<>>
    ELSE LET path == WalkOrder[i]
             node == tree.node[path]
         IN  IF node = Absent \/ ModeSymlink(node)
             THEN WalkEntries(tree, i + 1)
             ELSE IF node = Dir
                  THEN <<DirEntry(path)>> \o WalkEntries(tree, i + 1)
                  ELSE <<FileEntry(path, OpenRead(node))>>
                           \o WalkEntries(tree, i + 1)

\* Repack fails when the walk's root is missing.
RepackOk(tree) == tree.exists

\* Repack: the archive written for a contents tree.
Repack(tree) ==
    [kind |-> "zip",
     entries |-> IF tree.exists THEN WalkEntries(tree, 1) ELSE <<>>,
     by |-> "zipfs"]

\* zip.OpenReader succeeds on the file.
IsArchive(f) == f.kind = "zip"

\* ComputeZipHash: SHA-256 of the file's bytes, taken as collision free.
ComputeZipHash(f) == <<"sha256", f>>

\* totalUncompressedSize after the entries up to i: a uint64 that each
\* += reduces to 64 bits.
RECURSIVE SumSizes(_, _)
SumSizes(entries, i) ==
    IF i = 0 THEN Wide(0)
    ELSE IF entries[i].dir THEN SumSizes(entries, i - 1)
    ELSE Wrap64(Add(SumSizes(entries, i - 1), entries[i].usize))

\* The entry's ratio float64(usize) / float64(csize) is above the limit.
RatioExceeds(e, limit) == Greater(e.usize, Times(e.csize, limit))

\* CheckZipBombFromReader: IsSafe.
CheckZipBomb(arc) ==
    /\ ~Greater(SumSizes(arc.entries, Len(arc.entries)),
                Wide(MaxExtractedSizeBytes))
    /\ Len(arc.entries) <= MaxFileCount
    /\ \A i \in 1 .. Len(arc.entries) :
          LET e == arc.entries[i]
          IN  (~e.dir /\ e.csize # Wide(0))
                  => ~RatioExceeds(e, MaxCompressionRatio)

\* Entry names of an archive, as sequences of components; a first component
\* "/" makes the name absolute.
EntryNames ==
    { <<"b">>, <<"d">>, <<"d", "a">>, <<".">>, <<"d", "..", "b">>,
      <<"..", "b">>, <<"d", "..", "..", "b">>, <<"/", "b">> }

\* The destination directory of an extraction, as a path of its own, so
\* that paths beside it can be told from paths below it.
Base == <<"B">>

IsAbs(name) == name # <<>> /\ name[1] = "/"

\* File names that hold a byte below 0x20: one with the null byte, one with
\* another control character (written in caret notation).
NullNames == { "b^@" }
ControlNames == NullNames \cup { "b^A" }
\* strings.Contains(path, "\x00").
HasNullByte(path) == \E i \in 1 .. Len(path) : path[i] \in NullNames

\* filepath.Join(base, name): the parts joined, then cleaned.
Join(base, name) == Clean(base \o SelectSeq(name, LAMBDA c : c # "/"))

\* strings.HasPrefix(filepath.Rel(base, target), ".."): target is not base
\* nor below it.
RelEscapes(base, target) == ~IsPrefix(base, target)

\* A faulty ValidatePath: it looks for ".." at the head of the name as
\* given, not of the cleaned name, and does not resolve the target.
ValidatePathUncleaned(base, entryPath) ==
    /\ entryPath # <<>>
    /\ ~IsAbs(entryPath)
    /\ entryPath[1] # ".."

\* ValidatePath: TRUE when the entry path is accepted.
ValidatePath(base, entryPath) ==
    /\ entryPath # <<>>
    /\ ~HasNullByte(entryPath)
    /\ ~IsAbs(entryPath)
    /\ LET cleanEntry == Clean(entryPath)
           target == Join(Clean(base), cleanEntry)
       IN  /\ ~(cleanEntry # <<>> /\ cleanEntry[1] = "..")
           /\ ~RelEscapes(Clean(base), target)

\* A faulty ValidateAllPaths: it stops after the first path.
ValidateFirstPath(base, paths) ==
    paths = <<>> \/ ValidatePath(base, paths[1])

\* ValidateAllPaths: TRUE when every path is accepted.
ValidateAllPaths(base, paths) ==
    \A i \in 1 .. Len(paths) : ValidatePath(base, paths[i])

\* ------------------------------------------------------ scanner / mutator

\* A faulty ValidateRelativePath: it looks at the cleaned path only, so a
\* ".." inside the path and a control character pass.
ValidateCleanedPath(rel) ==
    /\ rel # <<>>
    /\ ~IsAbs(rel)
    /\ ~HasNullByte(rel)
    /\ ~(Clean(rel) # <<>> /\ Clean(rel)[1] = "..")

\* ValidateRelativePath: TRUE when the path is accepted (no absolute path,
\* no null byte or control character, no ".." component as given or after
\* cleaning).
ValidateRelativePath(rel) ==
    /\ rel # <<>>
    /\ ~IsAbs(rel)
    /\ ~HasNullByte(rel)
    /\ \A i \in 1 .. Len(rel) : rel[i] \notin ControlNames
    /\ ~(Clean(rel) # <<>> /\ Clean(rel)[1] = "..")
    /\ \A i \in 1 .. Len(rel) : rel[i] # ".."

\* A faulty scanner: WriteFile and DeleteFile take the path as it comes.
AnyWorkspacePath(rel) == TRUE

\* The two checks WriteFile and DeleteFile start with, contents/ being the
\* base directory.
ValidWorkspacePath(rel) == ValidateRelativePath(rel) /\ ValidatePath(Base, rel)

\* OriginalZipPath, beside contents/ in the workspace directory.
OriginalZipPath == <<"original.zip">>

\* filepath.Join(contentsDir, relativePath) names original.zip.
TargetsOriginalZip(rel) == Join(Base, rel) = OriginalZipPath

\* WriteFile's os.MkdirAll(filepath.Dir(targetPath)) when createDirs is set.
\* The parent of contents/ itself is the workspace directory, which exists.
WithParents(tree, target, createDirs) ==
    IF createDirs /\ target # Root /\ MkdirAllOk(tree, Parent(target))
    THEN MkdirAll(tree, Parent(target))
    ELSE tree

WriteFileOk(tree, rel, createDirs) ==
    LET target == Clean(rel)
        made   == WithParents(tree, target, createDirs)
    IN  /\ ValidWorkspacePath(rel)
        /\ createDirs => MkdirAllOk(tree, Parent(target))
        /\ target \in Paths
        /\ NodeAt(made, Parent(target)) = Dir
        /\ NodeAt(made, target) # Dir

\* WriteFile: the contents tree afterwards (the directories it made stay
\* when the write itself fails).
WriteFile(tree, rel, content, createDirs) ==
    LET target == Clean(rel)
        made   == WithParents(tree, target, createDirs)
    IN  IF ~ValidWorkspacePath(rel) THEN tree
        ELSE IF WriteFileOk(tree, rel, createDirs)
        THEN [made EXCEPT !.node[target] = content]
        ELSE made

\* WriteFile's os.WriteFile(targetPath) as original.zip sees it: the bytes
\* written are no archive.
WriteFileBeside(orig, rel) ==
    IF ValidWorkspacePath(rel) /\ TargetsOriginalZip(rel) /\ orig # NoFile
    THEN Truncated
    ELSE orig

DeleteFileOk(tree, rel, recursive) ==
    LET target == Clean(rel)
    IN  /\ ValidWorkspacePath(rel)
        /\ NodeAt(tree, target) # Absent
        /\ NodeAt(tree, target) = Dir => recursive

\* DeleteFile: the contents tree afterwards (as before when it fails).
DeleteFile(tree, rel, recursive) ==
    LET target == Clean(rel)
    IN  IF ~DeleteFileOk(tree, rel, recursive) THEN tree
        ELSE IF recursive THEN RemoveAll(tree, target)
        ELSE [tree EXCEPT !.node[target] = Absent]

\* DeleteFile's os.Remove / os.RemoveAll(targetPath) as original.zip sees
\* it.
DeleteFileBeside(orig, rel) ==
    IF ValidWorkspacePath(rel) /\ TargetsOriginalZip(rel) THEN NoFile ELSE orig

\* The state of an extraction into Base: whether it goes on, the tree below
\* Base, and the paths it has created that are not below Base.
StartExtract == [ok |-> TRUE, tree |-> EmptyTree, outside |-> {}]

\* extractFile on one entry: the extraction afterwards; ok is FALSE when it
\* fails (what it created before stays).
ExtractFile(st, e) ==
    LET destPath == Join(Base, e.name)
        rel == SubSeq(destPath, 2, Len(destPath))
    IN  IF RelEscapes(Base, destPath)
        THEN [st EXCEPT !.outside = st.outside \cup { destPath }]
        ELSE IF rel = Root
        THEN [st EXCEPT !.ok = e.dir]
        ELSE IF e.dir
        THEN IF MkdirAllOk(st.tree, rel)
             THEN [st EXCEPT !.tree = MkdirAll(st.tree, rel)]
             ELSE [st EXCEPT !.ok = FALSE]
        ELSE IF ~MkdirAllOk(st.tree, Parent(rel))
        THEN [st EXCEPT !.ok = FALSE]
        ELSE IF NodeAt(st.tree, rel) = Dir
        THEN [st EXCEPT !.ok = FALSE,
                        !.tree = MkdirAll(st.tree, Parent(rel))]
        ELSE [st EXCEPT !.ok = SizesAsStored(e),
                        !.tree =
                 [MkdirAll(st.tree, Parent(rel)) EXCEPT !.node[rel] = e.bytes]]

\* Extract's loop from entry i on: it stops at the first entry that fails.
RECURSIVE ExtractFrom(_, _, _)
ExtractFrom(st, entries, i) ==
    IF i > Len(entries) \/ ~st.ok THEN st
    ELSE ExtractFrom(ExtractFile(st, entries[i]), entries, i + 1)

EntryPaths(arc) == [i \in 1 .. Len(arc.entries) |-> arc.entries[i].name]

\* Extract's checks before the first entry is written: the code it ends
\* with, "ok" when it goes on to extract.
ExtractChecks(arc) ==
    IF ~IsArchive(arc) THEN "ZIP_INVALID"
    ELSE IF ~CheckZipBomb(arc) THEN "ZIP_BOMB_DETECTED"
    ELSE IF ~ValidateAllPaths(Base, EntryPaths(arc)) THEN "PATH"
    ELSE "ok"

\* Extract into a destination: the code it ends with, the tree it leaves
\* there and the paths it created elsewhere.  A destination that is missing
\* comes into being with the first entry (MkdirAll in extractFile).
ExtractInto(tree, arc) ==
    LET code == ExtractChecks(arc)
        start == [StartExtract EXCEPT
                      !.tree = IF tree.exists THEN tree ELSE EmptyTree]
        st == ExtractFrom(start, arc.entries, 1)
    IN  IF code # "ok" \/ arc.entries = <<>>
        THEN [code |-> code, tree |-> tree, outside |-> {}]
        ELSE [code |-> IF st.ok THEN "ok" ELSE "IO",
              tree |-> st.tree, outside |-> st.outside]

\* Extract into an empty destination.
Extract(arc) == ExtractInto(EmptyTree, arc)

\* The archive the session was opened from, and the archive an outside
\* program overwrites the source with.
OrigArchive ==
    [kind |-> "zip", entries |-> << FileEntry(<<"b">>, "x") >>, by |-> "user"]
ExternalArchive ==
    [kind |-> "zip",
     entries |-> << FileEntry(<<"b">>, "x"), FileEntry(<<"d">>, "x") >>,
     by |-> "user"]

\* ------------------------------------------------------------ the state

VARIABLES
    source,       \* the file at the source path
    backups,      \* the backup files: 0 is S.bak.E, i >= 1 is S.bak.i.E
    tempFile,     \* per process: the temp file its Sync made beside the source
    orphans,      \* temp files left beside the source by crashed Syncs
    contents,     \* the tree under contents/ (NoDir: no such directory)
    originalZip,  \* the workspace's original.zip
    metadata,     \* the record in metadata.json (NoMeta: no such file)
    lockHolders,  \* flock(2) state of metadata.json.lock: who holds what
    pc,           \* per process: where it stands
    op,           \* per process: the operation it runs
    handle,       \* per process: its in-memory Session
    local,        \* per process: Sync's local variables
    clock,        \* wall clock: operations started so far
    crashes,      \* crashes so far
    faults,       \* injected I/O failures so far
    seen,         \* per process, for the properties: what its Sync saw
    lastSync,     \* for the properties: the tree the last good Sync packed
    reopened,     \* result of the last CreateSession on the source
    cfg,          \* the loaded Config
    syncs,        \* for the properties: Syncs that have committed so far
    workspaces,   \* the workspaces directory: per directory name, what is there
    issued,       \* session identifiers generated so far
    creating,     \* per creator: its CreateSession call
    extraction,   \* an Extract call on its own: archive, position, result
    resolved,     \* a ResolveSession call on its own: identifier and result
    packing,      \* a Repack call on its own: directory and archive written
    rewriting,    \* an UpdateSession call on its own: directory, record, stage
    scanning      \* scanner calls on their own: the tree and the last call

srcVars == <<source, backups, tempFile, orphans>>
wsVars == <<contents, originalZip, metadata>>
procVars == <<pc, op, handle, local>>
envVars == <<clock, crashes, faults>>
obsVars == <<seen, lastSync, reopened>>
regVars ==
    <<workspaces, issued, creating, extraction, resolved, packing, rewriting,
      scanning>>
vars == <<srcVars, wsVars, lockHolders, procVars, envVars, obsVars, cfg, syncs,
          regVars>>

\* Index of the newest backup, S.bak.E, and the indices there are.
Bak == 0
\* RotateBackups touches S.bak.E and S.bak.1.E .. S.bak.maxDepth.E, S.bak.2.E
\* at every depth.
Largest(S) == CHOOSE x \in S : \A y \in S : y <= x
BackupIndex == 0 .. Largest({ 2, BackupRotationDepth, MaxDepth })

NoOp == [kind |-> "none", force |-> FALSE]
NoHash == <<"none", NoFile>>
NoHandle == [state |-> "none", hash |-> NoHash, synced |-> 0, accessed |-> 0]
\* No metadata.json.
NoMeta == NoHandle
NoBackups == [i \in BackupIndex |-> NoFile]
NoLocal == [restoreState |-> FALSE, cleanupTemp |-> FALSE, err |-> "none", i |-> 0]
NoSeen == [source |-> NoFile, backups |-> NoBackups, stored |-> NoHash,
           record |-> NoMeta, persisted |-> FALSE, observed |-> NoFile,
           packed |-> NoDir]
NoSync == [fresh |-> FALSE, tree |-> NoDir]
NotReopened == [code |-> "none", tree |-> NoDir, hash |-> NoHash,
                fresh |-> FALSE, expect |-> NoDir]

\* DefaultConfig(): the options the model reads.
DefaultConfig == [depth |-> BackupRotationDepth, maxSessions |-> MaxSessions]

\* Session identifiers, in the order uuid.New() hands them out.  They stand
\* for UUIDs: all of one length, longer than MinPrefixLen, the first two
\* alike in their first MinPrefixLen characters.
UUIDs == << <<"a", "a", "a", "a", "a">>,
            <<"a", "a", "a", "a", "b">>,
            <<"a", "b", "a", "a", "a">> >>
UUIDSet == { UUIDs[k] : k \in 1 .. Len(UUIDs) }
\* Session names a caller may ask for (the empty name: none asked for).
NoName == <<>>
Names == { <<"n">>, <<"a", "a", "a", "a">> }
\* Names of the directories under workspaces/.
DirNames == Names \cup UUIDSet

\* A session record of the registry (NoRecord: no loadable metadata.json).
NoRecord == [id |-> <<>>, name |-> NoName, state |-> "none", hash |-> NoHash]
\* A directory name under workspaces/ with nothing there.
NoWorkspace == [exists |-> FALSE, meta |-> NoRecord, original |-> NoFile,
                tree |-> NoDir]
\* Callers of CreateSession.
Creators == 1 .. NumProcs
NoCreate == [pc |-> "idle", name |-> NoName, id |-> <<>>, dir |-> <<>>,
             hash |-> NoHash, observed |-> NoFile, err |-> "none"]
NoExtraction == [arc |-> NoFile, pos |-> 0, status |-> "none", tree |-> NoDir,
                 outside |-> {}]
NoResolved == [identifier |-> <<>>, code |-> "none", dir |-> <<>>]
NoPacking == [tree |-> NoDir, status |-> "none", archive |-> NoFile]
NoRewrite == [dir |-> <<>>, record |-> NoRecord, stage |-> "none"]
NoScan == [tree |-> NoDir, outside |-> {}, op |-> "none", rel |-> <<>>,
           status |-> "none", touched |-> FALSE]

\* No session in the registry, no call on it under way.
InitRegistry ==
    /\ workspaces = [d \in DirNames |-> NoWorkspace]
    /\ issued = 0
    /\ creating = [c \in Creators |-> NoCreate]
    /\ extraction = NoExtraction
    /\ resolved = NoResolved
    /\ packing = NoPacking
    /\ rewriting = NoRewrite
    /\ scanning = NoScan

\* The workspace directory exists exactly when its metadata or its contents/
\* do: CreateWorkspace makes both directories, RemoveWorkspace removes all.
WorkspaceExists == metadata # NoMeta \/ contents.exists

\* The session as CreateSession leaves it: contents/ extracted from the
\* source, original.zip a copy of it, its hash recorded, state "open".
InitSession ==
    /\ source = OrigArchive
    /\ backups = NoBackups
    /\ orphans = 0
    /\ contents = Extract(OrigArchive).tree
    /\ originalZip = OrigArchive
    /\ metadata = [state |-> "open", hash |-> ComputeZipHash(OrigArchive),
                   synced |-> 0, accessed |-> 0]
    /\ lockHolders = {}
    /\ clock = 0
    /\ crashes = 0
    /\ faults = 0
    /\ lastSync = NoSync
    /\ reopened = NotReopened
    /\ syncs = 0

InitProcs(P) ==
    /\ tempFile = [p \in P |-> NoFile]
    /\ pc = [p \in P |-> "idle"]
    /\ op = [p \in P |-> NoOp]
    /\ handle = [p \in P |-> NoHandle]
    /\ local = [p \in P |-> NoLocal]
    /\ seen = [p \in P |-> NoSeen]

\* The Sync specifications follow one session, under the default
\* configuration; the registry of sessions stays out of them.
Init == InitSession /\ InitProcs(Procs) /\ cfg = DefaultConfig /\ InitRegistry

\* --------------------------------------------------------- session store

\* loadSession: the record read from metadata.json.
loadSession(meta) == meta

\* UpdateSession: os.WriteFile(metadata.json) of the whole in-memory record;
\* it fails when the workspace directory is gone.
UpdateSession(meta, exists, session) == IF exists THEN session ELSE meta

\* TouchSession: last_accessed_at := now, then UpdateSession of the record.
TouchSession(meta, exists, session, now) ==
    UpdateSession(meta, exists, [session EXCEPT !.accessed = now])

\* ----------------------------------------------------------- lock manager

\* flock(2) with LOCK_NB: LOCK_SH is granted unless another open file
\* description holds LOCK_EX, LOCK_EX only when nobody holds anything.
FlockGranted(holders, lockOp) ==
    IF lockOp = "LOCK_SH"
    THEN \A h \in holders : h.lockOp = "LOCK_SH"
    ELSE holders = {}

\* acquire: the holders after its first successful flock (unchanged while
\* the lock cannot be granted).
acquire(holders, p, shared) ==
    LET lockOp == IF shared THEN "LOCK_SH" ELSE "LOCK_EX"
    IN  IF FlockGranted(holders, lockOp)
        THEN holders \cup { [proc |-> p, lockOp |-> lockOp] }
        ELSE holders

AcquireShared(holders, p) == acquire(holders, p, TRUE)

\* A faulty AcquireExclusive: it asks acquire for the shared mode.
AcquireExclusiveAsShared(holders, p) == acquire(holders, p, TRUE)

AcquireExclusive(holders, p) == acquire(holders, p, FALSE)

\* A faulty Release: the lock stays held.
ReleaseSkipped(holders, p) == holders

\* Lock.Release: LOCK_UN and close.  (A crashed process's descriptors are
\* closed by the kernel, to the same effect.)
Release(holders, p) == { h \in holders : h.proc # p }

Holds(p) == \E h \in lockHolders : h.proc = p

\* A faulty deadline check: the deadline never passes.
DeadlineNeverPassed(polls) == FALSE

\* acquire's deadline check, time.Now().After(deadline), after so many
\* turns of 100 ms.
DeadlinePassed(polls) == polls >= MaxPolls

\* acquire's time.Sleep before the next turn: one more turn waited.
Slept(polls) == IF polls < MaxPolls THEN polls + 1 ELSE polls

\* ------------------------------------------------------------------ Sync

\* A faulty state check: every state passes.
StateUnchecked(session) == TRUE

\* Sync step 2: the session's state must be "open".
StateIsOpen(session) == session.state = "open"

\* A faulty conflict check: the force flag is read the wrong way round.
ConflictOnlyWhenForced(currentHash, session, force) ==
    currentHash # session.hash /\ force

\* Sync step 6: a changed source stops a Sync that is not forced.
ConflictDetected(currentHash, session, force) ==
    currentHash # session.hash /\ ~force

\* One turn of RotateBackups' loop, for i from maxDepth down to 2:
\* os.Remove(S.bak.i.E), then S.bak.(i-1).E is renamed to it if it exists.
RotateStep(b, i) ==
    LET removed == [b EXCEPT ![i] = NoFile]
    IN  IF removed[i - 1] # NoFile
        THEN [removed EXCEPT ![i] = removed[i - 1], ![i - 1] = NoFile]
        ELSE removed

\* RotateBackups after the loop: S.bak.E, if it exists, replaces S.bak.2.E.
RotateBak(b) ==
    IF b[Bak] # NoFile
    THEN [b EXCEPT ![2] = b[Bak], ![Bak] = NoFile]
    ELSE b

\* Repack as Sync calls it.  fault is "none", "walk" (a write fails while an
\* entry is written: the walk returns the error) or "close" (the write that
\* fails is the one in the deferred zipWriter.Close(), whose error Repack
\* drops).  The result: the temp file's content and whether Repack returned
\* an error.
RepackResult(tree, fault) ==
    IF ~RepackOk(tree) THEN [file |-> Repack(tree), failed |-> TRUE]
    ELSE IF fault = "walk" THEN [file |-> Truncated, failed |-> TRUE]
    ELSE IF fault = "close" THEN [file |-> Truncated, failed |-> FALSE]
    ELSE [file |-> Repack(tree), failed |-> FALSE]

\* Sync's deferred functions, in the order they run before the lock is
\* released: the temp file is removed while cleanupTemp is set, and the
\* state is put back to "open" and written while restoreState is set.
DeferredTemp(file, l) == IF l.cleanupTemp THEN NoFile ELSE file

\* A faulty restoring defer: the in-memory state is not put back.
DeferredSessionUnrestored(session, l) == session

DeferredSession(session, l) ==
    IF l.restoreState THEN [session EXCEPT !.state = "open"] ELSE session

DeferredMetadata(meta, exists, session, l) ==
    IF l.restoreState
    THEN UpdateSession(meta, exists, DeferredSession(session, l))
    ELSE meta

\* A faulty step 11: the hash of the new archive is not recorded.
SyncedSessionOldHash(session, src, now) ==
    [session EXCEPT !.synced = now, !.state = "open"]

\* Step 11: the record Sync writes after the final rename.
SyncedSession(session, src, now) ==
    [session EXCEPT !.synced = now, !.hash = ComputeZipHash(src),
                    !.state = "open"]

\* A faulty adapter: the dry-run flag is not looked at.
PerformsSyncAlways(kind) == kind \in { "sync", "closesync", "dryrun" }

\* runSync, handleSync, runClose, handleClose: the operations that call
\* core.Sync; a sync with the dry-run flag calls core.Status instead.
PerformsSync(kind) == kind \in { "sync", "closesync" }

\* Sync leaves its straight-line code with error e: the deferred functions
\* are next.
Fail(p, e) ==
    /\ local' = [local EXCEPT ![p].err = e]
    /\ pc' = [pc EXCEPT ![p] = "sync_defer"]

\* ResolveSession by the adapter, then the call of the operation: Sync,
\* close (with or without --sync), a workspace write, delete or read, or a
\* fresh open of the source archive.
Begin(p, kind, force) ==
    /\ pc[p] = "idle"
    /\ kind = "open" \/ metadata # NoMeta
    /\ clock' = clock + 1
    /\ op' = [op EXCEPT ![p] = [kind |-> kind, force |-> force]]
    /\ handle' = [handle EXCEPT ![p] =
                     IF kind = "open" THEN NoHandle ELSE loadSession(metadata)]
    /\ pc' = [pc EXCEPT ![p] =
                 CASE PerformsSync(kind) -> "sync_acquire"
                   [] kind = "close" -> "close_delete"
                   [] kind = "open" -> "open_create"
                   [] OTHER -> "ws_op"]
    /\ UNCHANGED <<srcVars, wsVars, lockHolders, local, crashes, faults, obsVars>>
    /\ UNCHANGED <<cfg, syncs, regVars>>

\* Step 1: AcquireExclusive on the session's lock file, one turn of
\* acquire's loop.  Opening the lock file fails when the workspace directory
\* is gone; a turn whose flock fails sleeps and tries again, or, after the
\* deadline, ends the Sync with LOCKED.
SyncAcquire(p) ==
    /\ pc[p] = "sync_acquire"
    /\ LET got == AcquireExclusive(lockHolders, p)
       IN  IF ~WorkspaceExists
           THEN /\ local' = [local EXCEPT ![p].err = "IO"]
                /\ pc' = [pc EXCEPT ![p] = "sync_done"]
                /\ UNCHANGED <<lockHolders, seen, lastSync>>
           ELSE IF \E h \in got : h.proc = p
           THEN /\ lockHolders' = got
                /\ pc' = [pc EXCEPT ![p] = "sync_state"]
                /\ seen' = [seen EXCEPT ![p] =
                               [NoSeen EXCEPT !.source = source,
                                              !.backups = backups,
                                              !.stored = handle[p].hash,
                                              !.record = metadata]]
                /\ lastSync' = NoSync
                /\ local' = [local EXCEPT ![p].i = 0]
           ELSE IF ~DeadlinePassed(local[p].i)
           THEN /\ local' = [local EXCEPT ![p].i = Slept(local[p].i)]
                /\ UNCHANGED <<lockHolders, pc, seen, lastSync>>
           ELSE /\ local' = [local EXCEPT ![p].err = "LOCKED", ![p].i = 0]
                /\ pc' = [pc EXCEPT ![p] = "sync_done"]
                /\ UNCHANGED <<lockHolders, seen, lastSync>>
    /\ UNCHANGED <<srcVars, wsVars, op, handle, envVars, reopened>>
    /\ UNCHANGED <<cfg, syncs, regVars>>

\* Steps 2 and 3: the state must be "open"; "syncing" is persisted and the
\* restoring defer is registered.
SyncCheckState(p) ==
    /\ pc[p] = "sync_state"
    /\ IF ~StateIsOpen(handle[p])
       THEN /\ Fail(p, "STATE")
            /\ UNCHANGED <<handle, metadata, seen>>
       ELSE /\ handle' = [handle EXCEPT ![p].state = "syncing"]
            /\ metadata' = UpdateSession(metadata, WorkspaceExists, handle'[p])
            /\ IF WorkspaceExists
               THEN /\ local' = [local EXCEPT ![p].restoreState = TRUE]
                    /\ pc' = [pc EXCEPT ![p] = "sync_source"]
                    /\ seen' = [seen EXCEPT ![p].persisted = TRUE]
               ELSE Fail(p, "IO") /\ UNCHANGED seen
    /\ UNCHANGED <<srcVars, contents, originalZip, lockHolders, op, envVars,
                   lastSync, reopened>>
    /\ UNCHANGED <<cfg, syncs, regVars>>

\* Steps 4 to 6: the source must exist; its hash is compared.
SyncCheckSource(p) ==
    /\ pc[p] = "sync_source"
    /\ IF source = NoFile
       THEN Fail(p, "IO") /\ UNCHANGED seen
       ELSE IF ConflictDetected(ComputeZipHash(source), handle[p], op[p].force)
       THEN Fail(p, "CONFLICT_DETECTED") /\ UNCHANGED seen
       ELSE /\ pc' = [pc EXCEPT ![p] = "sync_temp"]
            /\ seen' = [seen EXCEPT ![p].observed = source]
            /\ UNCHANGED local
    /\ UNCHANGED <<srcVars, wsVars, lockHolders, op, handle, envVars, lastSync, reopened>>
    /\ UNCHANGED <<cfg, syncs, regVars>>

\* Step 7: os.CreateTemp beside the source; the removing defer is registered.
SyncCreateTemp(p) ==
    /\ pc[p] = "sync_temp"
    /\ tempFile' = [tempFile EXCEPT ![p] = Truncated]
    /\ local' = [local EXCEPT ![p].cleanupTemp = TRUE]
    /\ pc' = [pc EXCEPT ![p] = "sync_repack"]
    /\ UNCHANGED <<source, backups, orphans, wsVars, lockHolders, op, handle, envVars, obsVars>>
    /\ UNCHANGED <<cfg, syncs, regVars>>

\* Repack of contents/ into the temp file (Status before it changes nothing).
SyncRepack(p) ==
    /\ pc[p] = "sync_repack"
    /\ \E fault \in { "none", "walk", "close" } :
          LET r == RepackResult(contents, fault)
          IN  /\ fault # "none" => (RepackOk(contents) /\ faults < MaxFaults)
              /\ faults' = IF fault # "none" THEN faults + 1 ELSE faults
              /\ tempFile' = [tempFile EXCEPT ![p] = r.file]
              /\ seen' = [seen EXCEPT ![p].packed = contents]
              /\ IF r.failed
                 THEN Fail(p, "SYNC_FAILED")
                 ELSE /\ local' = [local EXCEPT ![p].i = cfg.depth]
                      /\ pc' = [pc EXCEPT ![p] =
                                   IF cfg.depth >= 2
                                   THEN "sync_rotate" ELSE "sync_rotate_bak"]
    /\ UNCHANGED <<source, backups, orphans, wsVars, lockHolders, op, handle,
                   clock, crashes, lastSync, reopened>>
    /\ UNCHANGED <<cfg, syncs, regVars>>

\* A rename may fail; an injected failure counts against MaxFaults.
RenameFails(fail) ==
    /\ fail => faults < MaxFaults
    /\ faults' = IF fail THEN faults + 1 ELSE faults

\* RotateBackups, one turn of its loop.
SyncRotate(p) ==
    /\ pc[p] = "sync_rotate"
    /\ \E fail \in BOOLEAN :
          /\ fail => backups[local[p].i - 1] # NoFile
          /\ RenameFails(fail)
          /\ IF fail
             THEN /\ backups' = [backups EXCEPT ![local[p].i] = NoFile]
                  /\ Fail(p, "IO")
             ELSE /\ backups' = RotateStep(backups, local[p].i)
                  /\ local' = [local EXCEPT ![p].i = local[p].i - 1]
                  /\ pc' = [pc EXCEPT ![p] =
                               IF local[p].i - 1 >= 2
                               THEN "sync_rotate" ELSE "sync_rotate_bak"]
    /\ UNCHANGED <<source, tempFile, orphans, wsVars, lockHolders, op, handle,
                   clock, crashes, obsVars>>
    /\ UNCHANGED <<cfg, syncs, regVars>>

\* RotateBackups: S.bak.E moves to S.bak.2.E.
SyncRotateBak(p) ==
    /\ pc[p] = "sync_rotate_bak"
    /\ \E fail \in BOOLEAN :
          /\ fail => backups[Bak] # NoFile
          /\ RenameFails(fail)
          /\ IF fail
             THEN /\ backups' = [backups EXCEPT ![2] = NoFile]
                  /\ Fail(p, "IO")
             ELSE /\ backups' = RotateBak(backups)
                  /\ pc' = [pc EXCEPT ![p] = "sync_backup"]
                  /\ UNCHANGED local
    /\ UNCHANGED <<source, tempFile, orphans, wsVars, lockHolders, op, handle,
                   clock, crashes, obsVars>>
    /\ UNCHANGED <<cfg, syncs, regVars>>

\* A faulty RotateBackups: the source is removed, not renamed.
SourceRemoved(bks, src) == bks

\* os.Rename(sourcePath, bakPath) as the backup chain sees it.
SourceRenamed(bks, src) == [bks EXCEPT ![Bak] = src]

\* RotateBackups: the source is renamed to S.bak.E.
SyncBackup(p) ==
    /\ pc[p] = "sync_backup"
    /\ \E fail \in BOOLEAN :
          /\ RenameFails(fail)
          /\ IF fail \/ source = NoFile
             THEN /\ Fail(p, "IO")
                  /\ UNCHANGED <<source, backups>>
             ELSE /\ backups' = SourceRenamed(backups, source)
                  /\ source' = NoFile
                  /\ pc' = [pc EXCEPT ![p] = "sync_rename"]
                  /\ UNCHANGED local
    /\ UNCHANGED <<tempFile, orphans, wsVars, lockHolders, op, handle,
                   clock, crashes, obsVars>>
    /\ UNCHANGED <<cfg, syncs, regVars>>

\* Step 10: the temp file is renamed to the source path.
SyncRename(p) ==
    /\ pc[p] = "sync_rename"
    /\ \E fail \in BOOLEAN :
          /\ RenameFails(fail)
          /\ IF fail
             THEN /\ Fail(p, "IO")
                  /\ UNCHANGED <<source, tempFile>>
             ELSE /\ source' = tempFile[p]
                  /\ tempFile' = [tempFile EXCEPT ![p] = NoFile]
                  /\ local' = [local EXCEPT ![p].cleanupTemp = FALSE]
                  /\ pc' = [pc EXCEPT ![p] = "sync_meta"]
    /\ UNCHANGED <<backups, orphans, wsVars, lockHolders, op, handle,
                   clock, crashes, obsVars>>
    /\ UNCHANGED <<cfg, syncs, regVars>>

\* Steps 11 and 12: the new hash, last_synced_at and state "open" are written.
SyncUpdateMeta(p) ==
    /\ pc[p] = "sync_meta"
    /\ IF source = NoFile
       THEN /\ Fail(p, "IO")
            /\ UNCHANGED <<handle, metadata, lastSync, syncs>>
       ELSE /\ handle' = [handle EXCEPT ![p] = SyncedSession(handle[p], source, clock)]
            /\ metadata' = UpdateSession(metadata, WorkspaceExists, handle'[p])
            /\ local' = [local EXCEPT ![p].restoreState = FALSE,
                                      ![p].err = IF WorkspaceExists THEN "ok" ELSE "IO"]
            /\ lastSync' = IF WorkspaceExists
                           THEN [fresh |-> TRUE, tree |-> seen[p].packed]
                           ELSE lastSync
            /\ syncs' = IF WorkspaceExists THEN syncs + 1 ELSE syncs
            /\ pc' = [pc EXCEPT ![p] = "sync_defer"]
    /\ UNCHANGED <<srcVars, contents, originalZip, lockHolders, op, envVars, seen, reopened>>
    /\ UNCHANGED <<cfg, regVars>>

\* The deferred functions but the last.
SyncDefer(p) ==
    /\ pc[p] = "sync_defer"
    /\ tempFile' = [tempFile EXCEPT ![p] = DeferredTemp(tempFile[p], local[p])]
    /\ handle' = [handle EXCEPT ![p] = DeferredSession(handle[p], local[p])]
    /\ metadata' = DeferredMetadata(metadata, WorkspaceExists, handle[p], local[p])
    /\ pc' = [pc EXCEPT ![p] = "sync_release"]
    /\ UNCHANGED <<source, backups, orphans, contents, originalZip, lockHolders,
                   op, local, envVars, obsVars>>
    /\ UNCHANGED <<cfg, syncs, regVars>>

\* The first defer registered, the last to run: lock.Release().
SyncRelease(p) ==
    /\ pc[p] = "sync_release"
    /\ lockHolders' = Release(lockHolders, p)
    /\ pc' = [pc EXCEPT ![p] = "sync_done"]
    /\ UNCHANGED <<srcVars, wsVars, op, handle, local, envVars, obsVars>>
    /\ UNCHANGED <<cfg, syncs, regVars>>

\* Sync has returned to its caller: runSync and handleSync report; runClose
\* and handleClose go on to DeleteSession only after a Sync without error.
SyncReturn(p) ==
    /\ pc[p] = "sync_done"
    /\ IF op[p].kind = "closesync" /\ local[p].err = "ok"
       THEN /\ pc' = [pc EXCEPT ![p] = "close_delete"]
            /\ UNCHANGED <<op, handle>>
       ELSE /\ pc' = [pc EXCEPT ![p] = "idle"]
            /\ op' = [op EXCEPT ![p] = NoOp]
            /\ handle' = [handle EXCEPT ![p] = NoHandle]
    /\ local' = [local EXCEPT ![p] = NoLocal]
    /\ seen' = [seen EXCEPT ![p] = NoSeen]
    /\ UNCHANGED <<srcVars, wsVars, lockHolders, envVars, lastSync, reopened>>
    /\ UNCHANGED <<cfg, syncs, regVars>>

\* ------------------------------------------------- close, workspace, open

\* RemoveWorkspace: os.RemoveAll of the workspace directory (metadata.json,
\* metadata.json.lock, original.zip and contents/ with it).
RemoveWorkspace(p) ==
    /\ contents' = NoDir
    /\ originalZip' = NoFile
    /\ metadata' = NoMeta

\* runClose / handleClose after the optional Sync: DeleteSession, that is
\* GetSession (which fails when the session is gone) and RemoveWorkspace.
CloseDelete(p) ==
    /\ pc[p] = "close_delete"
    /\ IF metadata # NoMeta
       THEN RemoveWorkspace(p)
       ELSE UNCHANGED wsVars
    /\ pc' = [pc EXCEPT ![p] = "idle"]
    /\ op' = [op EXCEPT ![p] = NoOp]
    /\ handle' = [handle EXCEPT ![p] = NoHandle]
    /\ UNCHANGED <<srcVars, lockHolders, local, envVars, obsVars>>
    /\ UNCHANGED <<cfg, syncs, regVars>>

\* After the workspace operation: handlers touch the session only when the
\* operation succeeded.
AfterWorkspaceOp(p, ok) ==
    IF ok
    THEN /\ pc' = [pc EXCEPT ![p] = "ws_touch"]
         /\ UNCHANGED <<op, handle>>
    ELSE /\ pc' = [pc EXCEPT ![p] = "idle"]
         /\ op' = [op EXCEPT ![p] = NoOp]
         /\ handle' = [handle EXCEPT ![p] = NoHandle]

\* handleWrite: core.WriteFile on contents/.
WorkspaceWrite(p) ==
    /\ pc[p] = "ws_op" /\ op[p].kind = "write"
    /\ \E rel \in RelPaths, content \in Bytes, createDirs \in BOOLEAN :
          /\ contents' = WriteFile(contents, rel, content, createDirs)
          /\ originalZip' = WriteFileBeside(originalZip, rel)
          /\ AfterWorkspaceOp(p, \/ WriteFileOk(contents, rel, createDirs)
                                 \/ originalZip' # originalZip)
    /\ UNCHANGED <<srcVars, metadata, lockHolders, local, envVars, obsVars>>
    /\ UNCHANGED <<cfg, syncs, regVars>>

\* handleDelete: core.DeleteFile on contents/.
WorkspaceDelete(p) ==
    /\ pc[p] = "ws_op" /\ op[p].kind = "delete"
    /\ \E rel \in RelPaths, recursive \in BOOLEAN :
          /\ contents' = DeleteFile(contents, rel, recursive)
          /\ originalZip' = DeleteFileBeside(originalZip, rel)
          /\ AfterWorkspaceOp(p, \/ DeleteFileOk(contents, rel, recursive)
                                 \/ originalZip' # originalZip)
    /\ UNCHANGED <<srcVars, metadata, lockHolders, local, envVars, obsVars>>
    /\ UNCHANGED <<cfg, syncs, regVars>>

\* handleLs, handleTree, handleRead, handleGrep: they read contents/.
WorkspaceRead(p) ==
    /\ pc[p] = "ws_op" /\ op[p].kind = "read"
    /\ AfterWorkspaceOp(p, contents.exists)
    /\ UNCHANGED <<srcVars, wsVars, lockHolders, local, envVars, obsVars>>
    /\ UNCHANGED <<cfg, syncs, regVars>>

\* core.Status succeeds when original.zip can be opened and contents/ can
\* be walked; it reads both and writes nothing.
StatusOk(orig, tree) == IsArchive(orig) /\ tree.exists

\* A dry-run sync: core.Status, and the report of its result.  No
\* TouchSession follows.
DryRunStatus(p) ==
    /\ pc[p] = "ws_op" /\ op[p].kind = "dryrun"
    /\ local' = [local EXCEPT ![p].err =
                     IF StatusOk(originalZip, contents) THEN "ok" ELSE "IO"]
    /\ pc' = [pc EXCEPT ![p] = "status_done"]
    /\ UNCHANGED <<srcVars, wsVars, lockHolders, op, handle, envVars, obsVars>>
    /\ UNCHANGED <<cfg, syncs, regVars>>

DryRunReturn(p) ==
    /\ pc[p] = "status_done"
    /\ pc' = [pc EXCEPT ![p] = "idle"]
    /\ op' = [op EXCEPT ![p] = NoOp]
    /\ handle' = [handle EXCEPT ![p] = NoHandle]
    /\ local' = [local EXCEPT ![p] = NoLocal]
    /\ UNCHANGED <<srcVars, wsVars, lockHolders, envVars, obsVars>>
    /\ UNCHANGED <<cfg, syncs, regVars>>

\* The handler's trailing core.TouchSession(session), its error dropped.
WorkspaceTouch(p) ==
    /\ pc[p] = "ws_touch"
    /\ metadata' = TouchSession(metadata, WorkspaceExists, handle[p], clock)
    /\ pc' = [pc EXCEPT ![p] = "idle"]
    /\ op' = [op EXCEPT ![p] = NoOp]
    /\ handle' = [handle EXCEPT ![p] = NoHandle]
    /\ UNCHANGED <<srcVars, contents, originalZip, lockHolders, local, envVars, obsVars>>
    /\ UNCHANGED <<cfg, syncs, regVars>>

\* CreateSession on the file at the source path, into a workspace of its
\* own: the code it ends with and the contents/ it extracts.
CreateSession(src) ==
    IF src = NoFile THEN [code |-> "ZIP_NOT_FOUND", tree |-> NoDir, hash |-> NoHash]
    ELSE IF ~IsArchive(src) THEN [code |-> "ZIP_INVALID", tree |-> NoDir, hash |-> NoHash]
    ELSE IF ~CheckZipBomb(src)
         THEN [code |-> "ZIP_BOMB_DETECTED", tree |-> NoDir, hash |-> NoHash]
    ELSE IF Extract(src).code # "ok"
         THEN [code |-> Extract(src).code, tree |-> NoDir, hash |-> NoHash]
    ELSE [code |-> "ok", tree |-> Extract(src).tree, hash |-> ComputeZipHash(src)]

\* A second open of the source archive (runOpen / handleOpen).
Reopen(p) ==
    /\ pc[p] = "open_create"
    /\ LET r == CreateSession(source)
       IN  reopened' = [code |-> r.code, tree |-> r.tree, hash |-> r.hash,
                        fresh |-> lastSync.fresh, expect |-> lastSync.tree]
    /\ pc' = [pc EXCEPT ![p] = "idle"]
    /\ op' = [op EXCEPT ![p] = NoOp]
    /\ UNCHANGED <<srcVars, wsVars, lockHolders, handle, local, envVars, seen, lastSync>>
    /\ UNCHANGED <<cfg, syncs, regVars>>

\* ------------------------------------------------------- the environment

\* Another program overwrites the source archive.
ExternalWrite ==
    /\ source \notin { NoFile, ExternalArchive }
    /\ source' = ExternalArchive
    /\ lastSync' = NoSync
    /\ UNCHANGED <<backups, tempFile, orphans, wsVars, lockHolders, procVars,
                   envVars, seen, reopened>>
    /\ UNCHANGED <<cfg, syncs, regVars>>

\* A process dies in the middle of its operation: no deferred function
\* runs, the kernel drops its lock, its temp file stays beside the source.
Crash(p) ==
    /\ pc[p] # "idle"
    /\ crashes < MaxCrashes
    /\ crashes' = crashes + 1
    /\ lockHolders' = Release(lockHolders, p)
    /\ orphans' = IF tempFile[p] # NoFile THEN orphans + 1 ELSE orphans
    /\ tempFile' = [tempFile EXCEPT ![p] = NoFile]
    /\ pc' = [pc EXCEPT ![p] = "idle"]
    /\ op' = [op EXCEPT ![p] = NoOp]
    /\ handle' = [handle EXCEPT ![p] = NoHandle]
    /\ local' = [local EXCEPT ![p] = NoLocal]
    /\ seen' = [seen EXCEPT ![p] = NoSeen]
    /\ UNCHANGED <<source, backups, wsVars, clock, faults, lastSync, reopened>>
    /\ UNCHANGED <<cfg, syncs, regVars>>

\* ----------------------------------------------- clients of the lock alone

\* A caller enters AcquireShared or AcquireExclusive on the lock file.
LockCall(p, shared) ==
    /\ pc[p] = "idle"
    /\ op' = [op EXCEPT ![p] =
                 [kind |-> IF shared THEN "AcquireShared" ELSE "AcquireExclusive",
                  force |-> FALSE]]
    /\ pc' = [pc EXCEPT ![p] = "acquire"]
    /\ UNCHANGED <<srcVars, wsVars, lockHolders, handle, local, envVars, obsVars>>
    /\ UNCHANGED <<cfg, syncs, regVars>>

\* acquire's loop: a turn whose flock succeeds returns the Lock.
LockAcquire(p) ==
    /\ pc[p] = "acquire"
    /\ LET got == IF op[p].kind = "AcquireShared"
                  THEN AcquireShared(lockHolders, p)
                  ELSE AcquireExclusive(lockHolders, p)
       IN  /\ \E h \in got : h.proc = p
           /\ lockHolders' = got
    /\ pc' = [pc EXCEPT ![p] = "holding"]
    /\ local' = [local EXCEPT ![p].i = 0]
    /\ UNCHANGED <<srcVars, wsVars, op, handle, envVars, obsVars>>
    /\ UNCHANGED <<cfg, syncs, regVars>>

\* acquire's loop: a turn whose flock fails before the deadline sleeps.
LockRetry(p) ==
    /\ pc[p] = "acquire"
    /\ LET got == IF op[p].kind = "AcquireShared"
                  THEN AcquireShared(lockHolders, p)
                  ELSE AcquireExclusive(lockHolders, p)
       IN  ~ \E h \in got : h.proc = p
    /\ ~DeadlinePassed(local[p].i)
    /\ local' = [local EXCEPT ![p].i = Slept(local[p].i)]
    /\ UNCHANGED <<srcVars, wsVars, lockHolders, pc, op, handle, envVars,
                   obsVars>>
    /\ UNCHANGED <<cfg, syncs, regVars>>

\* acquire's loop: a turn whose flock fails after the deadline returns LOCKED.
LockTimeout(p) ==
    /\ pc[p] = "acquire"
    /\ LET got == IF op[p].kind = "AcquireShared"
                  THEN AcquireShared(lockHolders, p)
                  ELSE AcquireExclusive(lockHolders, p)
       IN  ~ \E h \in got : h.proc = p
    /\ DeadlinePassed(local[p].i)
    /\ local' = [local EXCEPT ![p].err = "LOCKED", ![p].i = 0]
    /\ pc' = [pc EXCEPT ![p] = "locked"]
    /\ UNCHANGED <<srcVars, wsVars, lockHolders, op, handle, envVars, obsVars>>
    /\ UNCHANGED <<cfg, syncs, regVars>>

\* The holder calls Lock.Release.
LockRelease(p) ==
    /\ pc[p] = "holding"
    /\ lockHolders' = Release(lockHolders, p)
    /\ pc' = [pc EXCEPT ![p] = "idle"]
    /\ op' = [op EXCEPT ![p] = NoOp]
    /\ UNCHANGED <<srcVars, wsVars, handle, local, envVars, obsVars>>
    /\ UNCHANGED <<cfg, syncs, regVars>>

\* The caller that got LOCKED goes on without the lock.
LockGiveUp(p) ==
    /\ pc[p] = "locked"
    /\ local' = [local EXCEPT ![p] = NoLocal]
    /\ pc' = [pc EXCEPT ![p] = "idle"]
    /\ op' = [op EXCEPT ![p] = NoOp]
    /\ UNCHANGED <<srcVars, wsVars, lockHolders, handle, envVars, obsVars>>
    /\ UNCHANGED <<cfg, syncs, regVars>>

\* ------------------------------------------------------ specifications

OpKinds ==
    { "sync", "dryrun", "close", "closesync", "write", "delete", "read",
      "open" }

\* A client starts an operation, while fewer than limit have been started.
Start(p, limit) ==
    \E kind \in OpKinds, force \in BOOLEAN :
        /\ clock < limit
        /\ force => kind = "sync"
        /\ Begin(p, kind, force)

\* A client in an operation takes its next step, or dies.
Run(p) ==
    \/ SyncAcquire(p)
    \/ SyncCheckState(p)
    \/ SyncCheckSource(p)
    \/ SyncCreateTemp(p)
    \/ SyncRepack(p)
    \/ SyncRotate(p)
    \/ SyncRotateBak(p)
    \/ SyncBackup(p)
    \/ SyncRename(p)
    \/ SyncUpdateMeta(p)
    \/ SyncDefer(p)
    \/ SyncRelease(p)
    \/ SyncReturn(p)
    \/ CloseDelete(p)
    \/ WorkspaceWrite(p)
    \/ WorkspaceDelete(p)
    \/ WorkspaceRead(p)
    \/ WorkspaceTouch(p)
    \/ DryRunStatus(p)
    \/ DryRunReturn(p)
    \/ Reopen(p)
    \/ Crash(p)

\* Clients in any interleaving, the source overwritten at any moment.
Next ==
    \/ \E p \in Procs : Start(p, MaxConcurrentOps)
    \/ \E p \in Procs : Run(p)
    \/ ExternalWrite

Spec == Init /\ [][Next]_vars

\* One client, one operation at a time; the source is overwritten only
\* between operations.
ExternalWriteBetweenOps == pc[1] = "idle" /\ ExternalWrite

NextSeq == Start(1, MaxOps) \/ Run(1) \/ ExternalWriteBetweenOps

SpecSeq == Init /\ [][NextSeq]_vars

\* Clients that only Sync, in any interleaving.  A Sync in acquire's loop
\* takes its next turn (the scheduler runs it, time passes); a Sync that
\* holds the lock may take for ever.
StartSync(p) ==
    \E force \in BOOLEAN : clock < MaxOps /\ Begin(p, "sync", force)

RunSync(p) ==
    \/ SyncAcquire(p)
    \/ SyncCheckState(p)
    \/ SyncCheckSource(p)
    \/ SyncCreateTemp(p)
    \/ SyncRepack(p)
    \/ SyncRotate(p)
    \/ SyncRotateBak(p)
    \/ SyncBackup(p)
    \/ SyncRename(p)
    \/ SyncUpdateMeta(p)
    \/ SyncDefer(p)
    \/ SyncRelease(p)
    \/ SyncReturn(p)

NextContend == \E p \in Procs : StartSync(p) \/ RunSync(p)

SpecContend ==
    Init /\ [][NextContend]_vars /\ \A p \in Procs : WF_vars(SyncAcquire(p))

\* The same under every configured backup_rotation_depth.
InitDepth ==
    /\ InitSession /\ InitProcs(Procs) /\ InitRegistry
    /\ \E d \in 1 .. MaxDepth : cfg = [DefaultConfig EXCEPT !.depth = d]

SpecDepth == InitDepth /\ [][NextSeq]_vars

\* Clients of the lock file alone, in any interleaving.
Clients == 1 .. NumClients

InitLock ==
    InitSession /\ InitProcs(Clients) /\ cfg = DefaultConfig /\ InitRegistry

NextLock ==
    \E p \in Clients :
        \/ \E shared \in BOOLEAN : LockCall(p, shared)
        \/ LockAcquire(p)
        \/ LockRetry(p)
        \/ LockTimeout(p)
        \/ LockRelease(p)
        \/ LockGiveUp(p)

SpecLock == InitLock /\ [][NextLock]_vars

\* ------------------------------------------------------ the session registry

\* os.ReadDir of the workspaces directory: the entries sorted by name.
DirOrder ==
    << <<"a", "a", "a", "a">>, UUIDs[1], UUIDs[2], UUIDs[3], <<"n">> >>

\* loadSession succeeds on a workspace directory: metadata.json is there.
Loads(w) == w.exists /\ w.meta # NoRecord

Found(d) == [code |-> "ok", dir |-> d]
NotFound(code) == [code |-> code, dir |-> <<>>]

\* A faulty prefix rule: a prefix of any length counts.
HasIDPrefixAnyLength(id, identifier) == IsPrefix(identifier, id)

\* GetSession's prefix rule: len(identifier) >= 4 and the ID starts with it.
HasIDPrefix(id, identifier) ==
    Len(identifier) >= MinPrefixLen /\ IsPrefix(identifier, id)

\* GetSession's loop over the directory entries, from entry i on, with the
\* prefix matches collected so far.
RECURSIVE GetSessionFrom(_, _, _, _)
GetSessionFrom(ws, identifier, i, matches) ==
    IF i > Len(DirOrder)
    THEN IF Len(matches) = 1 THEN Found(matches[1])
         ELSE IF Len(matches) > 1 THEN NotFound("AMBIGUOUS_SESSION")
         ELSE NotFound("SESSION_NOT_FOUND")
    ELSE LET dirName == DirOrder[i]
             session == loadSession(ws[dirName].meta)
         IN  IF ~ws[dirName].exists
             THEN GetSessionFrom(ws, identifier, i + 1, matches)
             ELSE IF dirName = identifier
             THEN IF Loads(ws[dirName]) THEN Found(dirName)
                  ELSE GetSessionFrom(ws, identifier, i + 1, matches)
             ELSE IF ~Loads(ws[dirName])
             THEN GetSessionFrom(ws, identifier, i + 1, matches)
             ELSE IF session.id = identifier THEN Found(dirName)
             ELSE IF HasIDPrefix(session.id, identifier)
             THEN GetSessionFrom(ws, identifier, i + 1,
                                 Append(matches, dirName))
             ELSE GetSessionFrom(ws, identifier, i + 1, matches)

\* GetSession: by directory name, by ID or by ID prefix.
GetSession(ws, identifier) ==
    IF identifier = <<>> THEN NotFound("EMPTY_IDENTIFIER")
    ELSE GetSessionFrom(ws, identifier, 1, <<>>)

\* ListSessions: the directories whose metadata loads, in ReadDir order.
ListSessions(ws) == SelectSeq(DirOrder, LAMBDA d : Loads(ws[d]))

\* A faulty auto-selection: the first session of the list when there are
\* several.
AutoSelectFirst(sessions) ==
    IF Len(sessions) = 0 THEN NotFound("NO_SESSIONS")
    ELSE Found(sessions[1])

\* ResolveSession's switch on the number of sessions.
AutoSelect(sessions) ==
    IF Len(sessions) = 0 THEN NotFound("NO_SESSIONS")
    ELSE IF Len(sessions) = 1 THEN Found(sessions[1])
    ELSE NotFound("AMBIGUOUS_SESSION")

\* ResolveSession.
ResolveSession(ws, identifier) ==
    IF identifier # <<>> THEN GetSession(ws, identifier)
    ELSE AutoSelect(ListSessions(ws))

\* ------------------------------------------------------------ CreateSession

\* The directory CreateSession gives a session: its name, else its ID.
DirOf(id, name) == IF name # NoName THEN name ELSE id

\* A faulty clean-up: the workspace directory is left where it is.
RemoveWorkspaceSkipped(ws, dirName) == ws

\* RemoveWorkspace: os.RemoveAll of the workspace directory.
RemoveWorkspaceDir(ws, dirName) == [ws EXCEPT ![dirName] = NoWorkspace]

\* An injected failure of a read or a write.
IOFails(fail) == RenameFails(fail)

InProgress(c) == creating[c].pc \notin {"idle", "done", "closed"}

CreateUnchanged ==
    UNCHANGED <<srcVars, wsVars, lockHolders, procVars, crashes, obsVars,
                cfg, syncs, extraction, resolved, packing, rewriting, scanning>>

\* CreateSession returns with an error before it has made a workspace.
Refuse(c, e) ==
    /\ creating' = [creating EXCEPT ![c].pc = "done", ![c].err = e]
    /\ UNCHANGED <<workspaces, issued>>

\* CreateSession removes its workspace and returns with an error.
Abandon(c, e) ==
    /\ creating' = [creating EXCEPT ![c].pc = "done", ![c].err = e]
    /\ workspaces' = RemoveWorkspaceDir(workspaces, creating[c].dir)
    /\ UNCHANGED issued

\* CreateSession is called, while fewer than MaxOps calls have been made:
\* os.Stat of the source.
CreateCall(c, name) ==
    /\ ~InProgress(c)
    /\ clock < MaxOps
    /\ clock' = clock + 1
    /\ IF source = NoFile
       THEN /\ creating' = [creating EXCEPT
                   ![c] = [NoCreate EXCEPT !.pc = "done", !.name = name,
                                           !.err = "ZIP_NOT_FOUND"]]
       ELSE /\ creating' = [creating EXCEPT
                   ![c] = [NoCreate EXCEPT !.pc = "check_name",
                                           !.name = name]]
    /\ UNCHANGED <<workspaces, issued, faults>>
    /\ CreateUnchanged

\* The name is looked up with GetSession.
CreateCheckName(c) ==
    /\ creating[c].pc = "check_name"
    /\ IF /\ creating[c].name # NoName
          /\ GetSession(workspaces, creating[c].name).code = "ok"
       THEN Refuse(c, "NAME_COLLISION")
       ELSE /\ creating' = [creating EXCEPT ![c].pc = "check_limit"]
            /\ UNCHANGED <<workspaces, issued>>
    /\ UNCHANGED faults
    /\ UNCHANGED clock
    /\ CreateUnchanged

\* The sessions are counted with ListSessions.
CreateCheckLimit(c) ==
    /\ creating[c].pc = "check_limit"
    /\ IF Len(ListSessions(workspaces)) >= cfg.maxSessions
       THEN Refuse(c, "LIMIT_EXCEEDED")
       ELSE /\ creating' = [creating EXCEPT ![c].pc = "scan"]
            /\ UNCHANGED <<workspaces, issued>>
    /\ UNCHANGED faults
    /\ UNCHANGED clock
    /\ CreateUnchanged

\* The bomb pre-scan of the source; then the session gets its ID and its
\* directory name.
CreateScan(c) ==
    /\ creating[c].pc = "scan"
    /\ issued < Len(UUIDs)
    /\ IF ~IsArchive(source) THEN Refuse(c, "ZIP_INVALID")
       ELSE IF ~CheckZipBomb(source) THEN Refuse(c, "ZIP_BOMB_DETECTED")
       ELSE /\ issued' = issued + 1
            /\ creating' = [creating EXCEPT
                   ![c].pc = "mkdir",
                   ![c].id = UUIDs[issued + 1],
                   ![c].dir = DirOf(UUIDs[issued + 1], creating[c].name)]
            /\ UNCHANGED workspaces
    /\ UNCHANGED faults
    /\ UNCHANGED clock
    /\ CreateUnchanged

\* CreateWorkspace: MkdirAll of the workspace directory and of contents/.
\* When the second MkdirAll fails CreateSession returns at once: the
\* workspace directory stays.
CreateWorkspace(c) ==
    /\ creating[c].pc = "mkdir"
    /\ \E fail \in BOOLEAN :
          /\ IOFails(fail)
          /\ LET w == workspaces[creating[c].dir]
             IN  IF fail /\ ~w.tree.exists
                 THEN /\ workspaces' = [workspaces EXCEPT
                             ![creating[c].dir].exists = TRUE]
                      /\ creating' = [creating EXCEPT ![c].pc = "done",
                                                     ![c].err = "MKDIR"]
                 ELSE /\ workspaces' = [workspaces EXCEPT
                             ![creating[c].dir] =
                                 [w EXCEPT !.exists = TRUE,
                                           !.tree = IF w.tree.exists
                                                    THEN w.tree
                                                    ELSE EmptyTree]]
                      /\ creating' = [creating EXCEPT ![c].pc = "hash"]
    /\ UNCHANGED issued
    /\ UNCHANGED clock
    /\ CreateUnchanged

\* ComputeZipHash of the source.
CreateHash(c) ==
    /\ creating[c].pc = "hash"
    /\ \E fail \in BOOLEAN :
          /\ IOFails(fail)
          /\ IF fail \/ source = NoFile
             THEN Abandon(c, "IO")
             ELSE /\ creating' = [creating EXCEPT
                         ![c].pc = "copy",
                         ![c].hash = ComputeZipHash(source),
                         ![c].observed = source]
                  /\ UNCHANGED <<workspaces, issued>>
    /\ UNCHANGED clock
    /\ CreateUnchanged

\* copyFile of the source to original.zip.
CreateCopy(c) ==
    /\ creating[c].pc = "copy"
    /\ \E fail \in BOOLEAN :
          /\ IOFails(fail)
          /\ IF fail \/ source = NoFile \/ ~workspaces[creating[c].dir].exists
             THEN Abandon(c, "IO")
             ELSE /\ workspaces' = [workspaces EXCEPT
                         ![creating[c].dir].original = source]
                  /\ creating' = [creating EXCEPT ![c].pc = "extract"]
                  /\ UNCHANGED issued
    /\ UNCHANGED clock
    /\ CreateUnchanged

\* Extract of the source into contents/.
CreateExtract(c) ==
    /\ creating[c].pc = "extract"
    /\ LET w == workspaces[creating[c].dir]
           r == ExtractInto(w.tree, source)
       IN  IF r.code # "ok"
           THEN Abandon(c, r.code)
           ELSE /\ workspaces' = [workspaces EXCEPT ![creating[c].dir] =
                       [w EXCEPT !.exists = w.exists \/ r.tree.exists,
                                 !.tree = r.tree]]
                /\ creating' = [creating EXCEPT ![c].pc = "write_meta"]
                /\ UNCHANGED issued
    /\ UNCHANGED faults
    /\ UNCHANGED clock
    /\ CreateUnchanged

\* UpdateSession writes metadata.json; CreateSession returns the session.
CreateWriteMeta(c) ==
    /\ creating[c].pc = "write_meta"
    /\ \E fail \in BOOLEAN :
          /\ IOFails(fail)
          /\ IF fail \/ ~workspaces[creating[c].dir].exists
             THEN Abandon(c, "IO")
             ELSE /\ workspaces' = [workspaces EXCEPT
                         ![creating[c].dir].meta =
                             [id |-> creating[c].id,
                              name |-> creating[c].name,
                              state |-> "open",
                              hash |-> creating[c].hash]]
                  /\ creating' = [creating EXCEPT ![c].pc = "done"]
                  /\ UNCHANGED issued
    /\ UNCHANGED clock
    /\ CreateUnchanged

\* DeleteSession: GetSession, then RemoveWorkspace of the directory named
\* in the record.  The calls that returned a session in that directory
\* are marked: their session is closed.
DeleteSession(identifier) ==
    /\ GetSession(workspaces, identifier).code = "ok"
    /\ LET session == loadSession(
                          workspaces[GetSession(workspaces, identifier).dir]
                              .meta)
           dirName == DirOf(session.id, session.name)
       IN  /\ workspaces' = RemoveWorkspaceDir(workspaces, dirName)
           /\ creating' =
                  [c \in Creators |->
                      IF /\ creating[c].pc = "done"
                         /\ creating[c].err = "none"
                         /\ creating[c].dir = dirName
                      THEN [creating[c] EXCEPT !.pc = "closed"]
                      ELSE creating[c]]
    /\ UNCHANGED <<issued, faults, clock>>
    /\ CreateUnchanged

CreateStep(c) ==
    \/ CreateCheckName(c)
    \/ CreateCheckLimit(c)
    \/ CreateScan(c)
    \/ CreateWorkspace(c)
    \/ CreateHash(c)
    \/ CreateCopy(c)
    \/ CreateExtract(c)
    \/ CreateWriteMeta(c)

\* The sources CreateSession is called on: a good archive, a bomb, an
\* archive with an entry that leaves the destination, one with a file
\* where a later entry needs a directory, one whose headers declare one
\* byte more than max_extracted_size_bytes, one whose headers declare two
\* entries of 2^63 bytes, and a file that is no archive.
TestSources ==
    { OrigArchive,
      [kind |-> "zip", entries |-> << FileEntry(<<"b">>, "zeros") >>,
       by |-> "user"],
      [kind |-> "zip",
       entries |-> << FileEntry(<<"b">>, "x"),
                      FileEntry(<<"..", "b">>, "x") >>,
       by |-> "user"],
      [kind |-> "zip",
       entries |-> << FileEntry(<<"d">>, "x"),
                      FileEntry(<<"d", "a">>, "x") >>,
       by |-> "user"],
      [kind |-> "zip",
       entries |-> << DeclaredEntry(<<"b">>, "x", Wide(MaxExtractedSizeBytes),
                                    Wide(MaxExtractedSizeBytes)),
                      FileEntry(<<"d">>, "x") >>,
       by |-> "user"],
      [kind |-> "zip",
       entries |-> << DeclaredEntry(<<"b">>, "x", Half64, Half64),
                      DeclaredEntry(<<"d">>, "x", Half64, Half64) >>,
       by |-> "user"],
      Truncated }

\* No session yet; max_sessions as config.json or ZIPFS_MAX_SESSIONS set it.
InitOpen ==
    /\ InitSession /\ InitProcs(Procs) /\ InitRegistry
    /\ \E n \in 1 .. MaxSessionLimit :
          cfg = [DefaultConfig EXCEPT !.maxSessions = n]

\* Concurrent callers of CreateSession and DeleteSession, the source
\* overwritten at any moment.
NextOpen ==
    \/ \E c \in Creators, name \in Names \cup { NoName } :
          CreateCall(c, name)
    \/ \E c \in Creators : CreateStep(c)
    \/ \E d \in DirNames : DeleteSession(d)
    \/ ExternalWrite

SpecOpen == InitOpen /\ [][NextOpen]_vars

\* One caller, one call at a time, on every kind of source.
InitOpenSeq ==
    /\ InitProcs(Procs) /\ InitRegistry
    /\ \E n \in 1 .. MaxSessionLimit :
          cfg = [DefaultConfig EXCEPT !.maxSessions = n]
    /\ \E src \in TestSources :
          /\ source = src
          /\ backups = NoBackups
          /\ orphans = 0
          /\ contents = Extract(OrigArchive).tree
          /\ originalZip = OrigArchive
          /\ metadata = [state |-> "open",
                         hash |-> ComputeZipHash(OrigArchive),
                         synced |-> 0, accessed |-> 0]
          /\ lockHolders = {}
          /\ clock = 0
          /\ crashes = 0
          /\ faults = 0
          /\ lastSync = NoSync
          /\ reopened = NotReopened
          /\ syncs = 0

NextOpenSeq ==
    \/ \E name \in Names \cup { NoName } : CreateCall(1, name)
    \/ CreateStep(1)
    \/ \E d \in DirNames : DeleteSession(d)
    \/ ~InProgress(1) /\ ExternalWrite

SpecOpenSeq == InitOpenSeq /\ [][NextOpenSeq]_vars

\* ----------------------------------------------------------- Resolve alone

\* A live session in its directory: metadata written, workspace extracted.
LiveWorkspace(id, name) ==
    [exists |-> TRUE,
     meta |-> [id |-> id, name |-> name, state |-> "open",
               hash |-> ComputeZipHash(OrigArchive)],
     original |-> OrigArchive,
     tree |-> Extract(OrigArchive).tree]

\* The registries CreateSession can build: every ID belongs to at most one
\* session, every session sits in the directory of its name or, unnamed,
\* of its ID.
Registries ==
    { ws \in [DirNames -> { NoWorkspace } \cup
                  { LiveWorkspace(id, n) : id \in UUIDSet,
                                           n \in Names \cup { NoName } }] :
        /\ \A d \in DirNames :
              ws[d].exists => d = DirOf(ws[d].meta.id, ws[d].meta.name)
        /\ \A d, e \in DirNames :
              (ws[d].exists /\ ws[e].exists /\ d # e)
                  => ws[d].meta.id # ws[e].meta.id }

\* The identifiers Resolve is called with: none, every prefix of an ID,
\* every name, and one that matches nothing.
Identifiers ==
    { SubSeq(id, 1, n) : id \in UUIDSet, n \in 0 .. Len(UUIDs[1]) }
        \cup Names \cup { <<"z">> }

InitResolve ==
    /\ InitSession /\ InitProcs(Procs) /\ cfg = DefaultConfig
    /\ workspaces \in Registries
    /\ issued = 0
    /\ creating = [c \in Creators |-> NoCreate]
    /\ extraction = NoExtraction
    /\ packing = NoPacking
    /\ rewriting = NoRewrite
    /\ scanning = NoScan
    /\ \E identifier \in Identifiers :
          resolved = [identifier |-> identifier, code |-> "called",
                      dir |-> <<>>]

\* One call of ResolveSession.
Resolve ==
    /\ resolved.code = "called"
    /\ LET r == ResolveSession(workspaces, resolved.identifier)
       IN  resolved' = [resolved EXCEPT !.code = r.code, !.dir = r.dir]
    /\ UNCHANGED <<srcVars, wsVars, lockHolders, procVars, envVars, obsVars,
                   cfg, syncs, workspaces, issued, creating, extraction,
                   packing, rewriting, scanning>>

NextResolve == Resolve

SpecResolve == InitResolve /\ [][NextResolve]_vars

\* ---------------------------------------------------------- Extract alone

\* The entries an archive handed to Extract may hold.
TestEntries ==
    { FileEntry(n, b) : n \in EntryNames, b \in Bytes }
        \cup { DirEntry(n) : n \in EntryNames }

RECURSIVE SeqsUpTo(_, _)
SeqsUpTo(S, n) ==
    IF n = 0 THEN { <<>> }
    ELSE LET shorter == SeqsUpTo(S, n - 1)
         IN  shorter \cup { Append(q, x) : q \in shorter, x \in S }

\* The files handed to Extract: every archive of up to MaxEntries entries,
\* and a file that is no archive.
TestArchives ==
    { [kind |-> "zip", entries |-> es, by |-> "user"] :
          es \in SeqsUpTo(TestEntries, MaxEntries) } \cup { Truncated }

\* Extract is called on an archive, into an empty destination.
InitExtract ==
    /\ InitSession /\ InitProcs(Procs) /\ cfg = DefaultConfig
    /\ workspaces = [d \in DirNames |-> NoWorkspace]
    /\ issued = 0
    /\ creating = [c \in Creators |-> NoCreate]
    /\ resolved = NoResolved
    /\ packing = NoPacking
    /\ rewriting = NoRewrite
    /\ scanning = NoScan
    /\ \E arc \in TestArchives :
          extraction = [arc |-> arc, pos |-> 0, status |-> "called",
                        tree |-> EmptyTree, outside |-> {}]

ExtractUnchanged ==
    UNCHANGED <<srcVars, wsVars, lockHolders, procVars, envVars, obsVars,
                cfg, syncs, workspaces, issued, creating, resolved,
                packing, rewriting, scanning>>

\* The bomb check, the open of the archive and the validation of all entry
\* paths, before the loop over the entries.
ExtractValidate ==
    /\ extraction.status = "called"
    /\ LET code == ExtractChecks(extraction.arc)
       IN  extraction' =
               [extraction EXCEPT !.status = IF code = "ok" THEN "running"
                                             ELSE code,
                                  !.pos = 1]
    /\ ExtractUnchanged

\* One turn of the loop: extractFile on the next entry.
ExtractEntry ==
    /\ extraction.status = "running"
    /\ extraction.pos <= Len(extraction.arc.entries)
    /\ LET st == ExtractFile([ok |-> TRUE, tree |-> extraction.tree,
                              outside |-> extraction.outside],
                             extraction.arc.entries[extraction.pos])
       IN  extraction' =
               [extraction EXCEPT !.status = IF st.ok THEN "running" ELSE "IO",
                                  !.pos = @ + 1,
                                  !.tree = st.tree,
                                  !.outside = st.outside]
    /\ ExtractUnchanged

\* The loop is over: Extract returns nil.
ExtractReturn ==
    /\ extraction.status = "running"
    /\ extraction.pos > Len(extraction.arc.entries)
    /\ extraction' = [extraction EXCEPT !.status = "ok"]
    /\ ExtractUnchanged

NextExtract == ExtractValidate \/ ExtractEntry \/ ExtractReturn

SpecExtract == InitExtract /\ [][NextExtract]_vars

\* ------------------------------------------- metadata rewrite and readers

RewriteUnchanged ==
    UNCHANGED <<srcVars, wsVars, lockHolders, procVars, envVars, obsVars,
                cfg, syncs, issued, creating, extraction, packing, scanning>>

\* UpdateSession's os.WriteFile, first half: metadata.json is opened with
\* O_TRUNC, which leaves it empty; the record to write is in memory.
UpdateOpenTrunc(d) ==
    /\ rewriting.stage # "truncated"
    /\ Loads(workspaces[d])
    /\ rewriting' = [dir |-> d, record |-> workspaces[d].meta,
                     stage |-> "truncated"]
    /\ workspaces' = [workspaces EXCEPT ![d].meta = NoRecord]
    /\ UNCHANGED resolved
    /\ RewriteUnchanged

\* UpdateSession's os.WriteFile, second half: the marshalled record is
\* written and the file closed.
UpdateWriteData ==
    /\ rewriting.stage = "truncated"
    /\ workspaces' = [workspaces EXCEPT ![rewriting.dir].meta = rewriting.record]
    /\ rewriting' = [rewriting EXCEPT !.stage = "written"]
    /\ UNCHANGED resolved
    /\ RewriteUnchanged

\* A reader's ResolveSession, at any moment of the rewrite.
ResolveDuringRewrite ==
    /\ resolved.code = "called"
    /\ LET r == ResolveSession(workspaces, resolved.identifier)
       IN  resolved' = [resolved EXCEPT !.code = r.code, !.dir = r.dir]
    /\ UNCHANGED <<workspaces, rewriting>>
    /\ RewriteUnchanged

NextRewrite ==
    \/ \E d \in DirNames : UpdateOpenTrunc(d)
    \/ UpdateWriteData
    \/ ResolveDuringRewrite

SpecRewrite == InitResolve /\ [][NextRewrite]_vars

\* ----------------------------------------------------------- Repack alone

\* The directories handed to Repack: every tree over Paths of regular
\* files, directories and symbolic links (only a directory has children),
\* and a directory that does not exist.
TestTrees ==
    { [exists |-> TRUE, node |-> n] :
          n \in { m \in [Paths -> Nodes] :
                     \A q \in Paths :
                         (m[q] # Absent /\ Parent(q) # Root)
                             => m[Parent(q)] = Dir } }
        \cup { NoDir }

InitPack ==
    /\ InitSession /\ InitProcs(Procs) /\ cfg = DefaultConfig
    /\ workspaces = [d \in DirNames |-> NoWorkspace]
    /\ issued = 0
    /\ creating = [c \in Creators |-> NoCreate]
    /\ extraction = NoExtraction
    /\ resolved = NoResolved
    /\ rewriting = NoRewrite
    /\ scanning = NoScan
    /\ \E tree \in TestTrees :
          packing = [tree |-> tree, status |-> "called", archive |-> NoFile]

\* One call of Repack into a new file.
Pack ==
    /\ packing.status = "called"
    /\ packing' = [packing EXCEPT
                      !.status = IF RepackOk(packing.tree) THEN "ok" ELSE "IO",
                      !.archive = Repack(packing.tree)]
    /\ UNCHANGED <<srcVars, wsVars, lockHolders, procVars, envVars, obsVars,
                   cfg, syncs, workspaces, issued, creating, extraction,
                   resolved, rewriting, scanning>>

NextPack == Pack

SpecPack == InitPack /\ [][NextPack]_vars

\* ----------------------------------------------------------- scanner alone

ScanOps == { "list", "tree", "read", "write", "delete", "grep" }

\* Relative paths a caller hands to the scanner: the paths of the tree, "",
\* ".", an absolute path, paths with "..", with a null byte and with
\* another control character.
ScanPaths ==
    Paths \cup { <<>>, <<".">>, <<"/", "b">>, <<"..", "original.zip">>,
                 <<"d", "..", "b">>, <<"b^@">>, <<"d", "b^A">> }

\* The checks an operation starts with: the code it returns with, "ok"
\* when it goes on.  ListFiles, TreeView and GrepFiles skip
\* ValidateRelativePath for "" and "."; its error is passed on untyped;
\* all six call ValidatePath.
ScanCheck(o, rel) ==
    IF /\ o \in { "list", "tree", "grep" } => rel \notin { <<>>, <<".">> }
       /\ ~ValidateRelativePath(rel)
    THEN "INVALID"
    ELSE IF ~ValidatePath(Base, rel) THEN "PATH_TRAVERSAL"
    ELSE "ok"

\* What an operation returns on a path it has accepted.
ScanStatus(tree, o, rel, flag) ==
    LET node == NodeAt(tree, Clean(rel))
    IN  IF o = "write"
        THEN IF WriteFileOk(tree, rel, flag) THEN "ok" ELSE "IO"
        ELSE IF node = Absent THEN IF o = "grep" THEN "IO" ELSE "PATH_NOT_FOUND"
        ELSE IF o = "read" THEN IF node = Dir THEN "IO" ELSE "ok"
        ELSE IF o = "delete" THEN IF node = Dir /\ ~flag THEN "IO" ELSE "ok"
        ELSE "ok"

\* One call of a scanner operation: flag is createDirs for a write and
\* recursive for a delete.
ScanCall(sc, o, rel, content, flag) ==
    LET target == Join(Base, rel)
        mutates == o \in { "write", "delete" }
    IN  IF ScanCheck(o, rel) # "ok"
        THEN [sc EXCEPT !.op = o, !.rel = rel, !.touched = FALSE,
                        !.status = ScanCheck(o, rel)]
        ELSE [tree |-> IF o = "write" THEN WriteFile(sc.tree, rel, content, flag)
                       ELSE IF o = "delete" THEN DeleteFile(sc.tree, rel, flag)
                       ELSE sc.tree,
              outside |-> IF mutates /\ RelEscapes(Base, target)
                          THEN sc.outside \cup { target }
                          ELSE sc.outside,
              op |-> o, rel |-> rel, touched |-> TRUE,
              status |-> ScanStatus(sc.tree, o, rel, flag)]

\* A workspace whose contents/ is empty, no call made yet.
InitScan ==
    /\ InitSession /\ InitProcs(Procs) /\ cfg = DefaultConfig
    /\ workspaces = [d \in DirNames |-> NoWorkspace]
    /\ issued = 0
    /\ creating = [c \in Creators |-> NoCreate]
    /\ extraction = NoExtraction
    /\ resolved = NoResolved
    /\ packing = NoPacking
    /\ rewriting = NoRewrite
    /\ scanning = [NoScan EXCEPT !.tree = EmptyTree]

Scan ==
    /\ \E o \in ScanOps, rel \in ScanPaths, content \in Bytes,
          flag \in BOOLEAN :
          scanning' = ScanCall(scanning, o, rel, content, flag)
    /\ UNCHANGED <<srcVars, wsVars, lockHolders, procVars, envVars, obsVars,
                   cfg, syncs, workspaces, issued, creating, extraction,
                   resolved, packing, rewriting>>

NextScan == Scan

SpecScan == InitScan /\ [][NextScan]_vars

\* ------------------------------------------------------------ properties

\* Process p is in a Sync that has returned with error code e (before its
\* caller goes on).
Returned(p, e) == pc[p] = "sync_done" /\ local[p].err = e

\* C1: in any interleaving of acquisitions and releases on the lock file, a
\* client that holds the lock it asked for with AcquireExclusive is the only
\* holder: no other client, shared or exclusive, holds it at the same time.
C1_ExclusiveIsSoleHolder ==
    \A p \in Clients :
        (pc[p] = "holding" /\ op[p].kind = "AcquireExclusive")
            => /\ \A h \in lockHolders : h.proc = p
               /\ \A q \in Clients \ {p} : pc[q] # "holding"

\* C1 happens: a client holds the exclusive lock while another, refused
\* until its deadline, has got LOCKED.
C1_ExclusiveHeldOtherRefused ==
    \E p, q \in Clients :
        /\ p # q
        /\ pc[p] = "holding" /\ op[p].kind = "AcquireExclusive"
        /\ pc[q] = "locked"

\* C2: no workspace read, write or delete of a session executes while a
\* Sync of the session holds the exclusive lock (they would hold the shared
\* lock while they run).
C2_WorkspaceOpsExcludedBySync ==
    [][\A q \in Procs :
          (pc[q] = "ws_op" /\ pc'[q] = "ws_touch")
              => ~ \E h \in lockHolders : h.lockOp = "LOCK_EX"]_vars

\* C3: the workspace of a session is never removed while a Sync of it is
\* between its lock acquisition and its lock release.
C3_WorkspaceKeptDuringSync ==
    \A p \in Procs : Holds(p) => WorkspaceExists

\* C4: a Sync whose conflict check finds the source's hash different from
\* the stored hash, without force, returns CONFLICT_DETECTED and leaves the
\* source, every backup and the temp file as they were, the lock released
\* and the persisted state open.
C4_ConflictHasNoSideEffect ==
    \A p \in Procs :
        ( /\ pc[p] = "sync_done"
          /\ seen[p].persisted
          /\ seen[p].source # NoFile
          /\ ComputeZipHash(seen[p].source) # seen[p].stored
          /\ ~op[p].force )
            => /\ local[p].err = "CONFLICT_DETECTED"
               /\ source = seen[p].source
               /\ backups = seen[p].backups
               /\ tempFile[p] = NoFile
               /\ metadata.state = "open"
               /\ ~Holds(p)

\* C4 happens: a Sync has returned CONFLICT_DETECTED on a source that
\* already has a backup from an earlier Sync.
C4_ConflictAfterEarlierSync ==
    \E p \in Procs :
        /\ Returned(p, "CONFLICT_DETECTED")
        /\ seen[p].backups[Bak] # NoFile

\* C5: after every successful Sync, in any interleaving with external
\* writes to the source path, S.bak.E exists and holds the bytes of the
\* source as the Sync observed it at its conflict check.
C5_BackupIsObservedSource ==
    \A p \in Procs :
        Returned(p, "ok")
            => /\ backups[Bak] # NoFile
               /\ backups[Bak] = seen[p].observed

\* C6: reopening the source after a successful Sync (in a run without I/O
\* failure or crash) succeeds, and the new workspace's files and bytes equal
\* those of contents/ at the time of the Sync.
C6_RoundTrip ==
    (reopened.fresh /\ faults = 0 /\ crashes = 0)
        => /\ reopened.code = "ok"
           /\ reopened.tree = reopened.expect

\* C7: at every instant, also after a crash, the file at the source path is
\* absent or a complete archive, never a partially written one.
C7_SourceNeverPartial == source = NoFile \/ IsArchive(source)

\* C8: after every successful Sync the persisted hash is the SHA-256 of the
\* archive now at the source path, last-synced-at is the time of the Sync
\* and the persisted state is open.
C8_HashMatchesSource ==
    \A p \in Procs :
        Returned(p, "ok")
            => /\ metadata.hash = ComputeZipHash(source)
               /\ metadata.synced = clock
               /\ metadata.state = "open"

\* C8 happens: a forced Sync has succeeded over a source whose hash was not
\* the stored one, so the stored hash had to change.
C8_ForcedSyncSucceeded ==
    \E p \in Procs :
        /\ Returned(p, "ok")
        /\ seen[p].stored # ComputeZipHash(seen[p].source)

C10_InterruptedSyncRepaired ==
    \A p \in Procs :
        /\ pc[p] \in { "sync_acquire", "ws_op", "close_delete" }
               => metadata.state = "open"
        /\ pc[p] = "sync_done" => local[p].err # "STATE"

\* C11: a Sync of a session whose state is not open (it is syncing) refuses
\* with the state error and leaves the source, every backup and the
\* persisted metadata as they were, and no temp file behind.
C11_RefusedWhenNotOpen ==
    \A p \in Procs :
        (pc[p] = "sync_done" /\ seen[p].record.state = "syncing")
            => /\ local[p].err = "STATE"
               /\ source = seen[p].source
               /\ backups = seen[p].backups
               /\ metadata = seen[p].record
               /\ tempFile[p] = NoFile

\* C11 happens: a Sync has been refused for a session that a crashed Sync
\* left in state syncing.
C11_SyncRefused ==
    \E p \in Procs :
        /\ Returned(p, "STATE")
        /\ metadata.state = "syncing"

\* The backup generations on disk.
Generations == { i \in BackupIndex : backups[i] # NoFile }

Smaller(a, b) == IF a < b THEN a ELSE b

\* C12: starting from a source without backups, after N successive
\* successful Syncs under rotation depth d there are exactly min(N, d)
\* backup generations, the newest at S.bak.E, for every depth d from 1 on.
C12_RotationStable ==
    (crashes = 0 /\ faults = 0 /\ \A p \in Procs : pc[p] = "idle")
        => /\ Cardinality(Generations) = Smaller(syncs, cfg.depth)
           /\ syncs > 0 => backups[Bak] # NoFile

\* The live sessions of the registry, by directory.
Live == { d \in DirNames : Loads(workspaces[d]) }

\* CreateSession has returned a session to c, and nobody closed it since.
Created(c) == creating[c].pc = "done" /\ creating[c].err = "none"

\* CreateSession has returned an error to c.
CreateFailed(c) == creating[c].pc = "done" /\ creating[c].err # "none"

\* C13: after a successful open the hash stored in the session's metadata
\* is the SHA-256 of the workspace's original.zip, and the SHA-256 of the
\* source as open read it, whatever is written to the source while open
\* runs.
C13_HashIsOriginalZip ==
    \A c \in Creators :
        Created(c) =>
            LET w == workspaces[creating[c].dir]
            IN  /\ w.meta.hash = ComputeZipHash(w.original)
                /\ w.meta.hash = ComputeZipHash(creating[c].observed)

\* C14: the number of live sessions never exceeds max_sessions.
C14_AtMostMaxSessions == Cardinality(Live) <= cfg.maxSessions

\* C15: two Creates that both returned a session, neither closed since,
\* returned sessions in different directories.
C15_DistinctDirectories ==
    \A c1, c2 \in Creators :
        (c1 # c2 /\ Created(c1) /\ Created(c2))
            => creating[c1].dir # creating[c2].dir

\* The errors of the bomb pre-scan, of hashing, of the copy to original.zip,
\* of path validation, of extraction and of the metadata write.
StepErrors == {"ZIP_INVALID", "ZIP_BOMB_DETECTED", "IO", "PATH"}

ExtractReturned ==
    extraction.status \in {"ok", "IO", "PATH", "ZIP_BOMB_DETECTED",
                           "ZIP_INVALID"}

\* What the extraction has created: nothing below the destination, nothing
\* beside it.
NothingCreated == extraction.tree = EmptyTree /\ extraction.outside = {}

\* C17: when some entry of the archive, at whatever position, fails
\* ValidatePath, then after Extract returns the destination holds no file
\* and no directory from the archive (and nothing was created elsewhere).
C17_FailClosed ==
    (/\ ExtractReturned
     /\ \E i \in 1 .. Len(extraction.arc.entries) :
           ~ValidatePath(Base, extraction.arc.entries[i].name))
        => NothingCreated

\* C17's case: Extract returned after it refused an archive whose first
\* entry is acceptable and would have been written, and whose second is not.
C17_LaterEntryRejected ==
    /\ extraction.status = "PATH"
    /\ Len(extraction.arc.entries) = 2
    /\ extraction.arc.entries[1] = FileEntry(<<"b">>, "x")
    /\ extraction.arc.entries[2].name = <<"..", "b">>

\* C18: an extraction never creates a path that is not strictly below its
\* destination: not while it runs, and so not when it has succeeded.
C18_Contained ==
    extraction.status \in {"running", "ok"} => extraction.outside = {}

\* C18's case: an extraction succeeded on an entry whose name holds ".."
\* and resolves to a path below the destination.
C18_DotDotInside ==
    /\ extraction.status = "ok"
    /\ \E i \in 1 .. Len(extraction.arc.entries) :
          extraction.arc.entries[i] = FileEntry(<<"d", "..", "b">>, "x")
    /\ extraction.tree.node[<<"b">>] = "x"

\* The sessions an identifier matches under the stated rule: those whose
\* directory name it is; if none, those whose ID it is; if none, and it has
\* at least four characters, those whose ID starts with it.
RuleMatches(identifier) ==
    LET byDir == { d \in Live : d = identifier }
        byID == { d \in Live : workspaces[d].meta.id = identifier }
        byPrefix == { d \in Live :
                        /\ Len(identifier) >= MinPrefixLen
                        /\ IsPrefix(identifier, workspaces[d].meta.id) }
    IN  IF byDir # {} THEN byDir ELSE IF byID # {} THEN byID ELSE byPrefix

ResolveReturned == resolved.code \notin {"none", "called"}

\* C19: with a non-empty identifier, Resolve returns a session exactly when
\* it is the only match under the rule (directory name, else ID, else ID
\* prefix of at least four characters), AMBIGUOUS_SESSION exactly when
\* several match, and SESSION_NOT_FOUND exactly when none does.
C19_ResolveByIdentifier ==
    (ResolveReturned /\ resolved.identifier # <<>>) =>
        LET matches == RuleMatches(resolved.identifier)
        IN  /\ resolved.code \in {"ok", "AMBIGUOUS_SESSION",
                                  "SESSION_NOT_FOUND"}
            /\ resolved.code = "ok" <=> Cardinality(matches) = 1
            /\ resolved.code = "ok" => matches = { resolved.dir }
            /\ resolved.code = "AMBIGUOUS_SESSION"
                   <=> Cardinality(matches) > 1
            /\ resolved.code = "SESSION_NOT_FOUND" <=> matches = {}

\* C19's case: a prefix of three characters that only one session's ID
\* starts with was resolved, and no session was found.
C19_ShortUniquePrefix ==
    /\ ResolveReturned
    /\ Len(resolved.identifier) = MinPrefixLen - 1
    /\ Cardinality({ d \in Live :
                       IsPrefix(resolved.identifier,
                                workspaces[d].meta.id) }) = 1
    /\ resolved.code = "SESSION_NOT_FOUND"

\* C20: with an empty identifier, Resolve returns NO_SESSIONS exactly when
\* no session exists, the session exactly when one exists, and
\* AMBIGUOUS_SESSION exactly when two or more exist.
C20_ResolveWithoutIdentifier ==
    (ResolveReturned /\ resolved.identifier = <<>>) =>
        /\ resolved.code \in {"ok", "NO_SESSIONS", "AMBIGUOUS_SESSION"}
        /\ resolved.code = "NO_SESSIONS" <=> Live = {}
        /\ resolved.code = "ok" <=> Cardinality(Live) = 1
        /\ resolved.code = "ok" => Live = { resolved.dir }
        /\ resolved.code = "AMBIGUOUS_SESSION" <=> Cardinality(Live) >= 2

\* C20's case: Resolve was called without an identifier while two sessions
\* existed, and has returned.
C20_TwoSessionsNoIdentifier ==
    /\ ResolveReturned
    /\ resolved.identifier = <<>>
    /\ Cardinality(Live) = 2
    /\ resolved.code = "AMBIGUOUS_SESSION"

\* A Sync's turn in acquire ends with LOCKED.
TimesOut(p) == pc[p] = "sync_acquire" /\ local'[p].err = "LOCKED"

\* C21: a Sync that waits for the lock stops waiting, with the lock or
\* with LOCKED; LOCKED comes only after the deadline, from a turn whose
\* flock failed, and the Sync that gets it returns at once and changes
\* nothing on disk.
C21_AcquireTimesOut ==
    /\ \A p \in Procs :
          (pc[p] = "sync_acquire") ~> (pc[p] # "sync_acquire")
    /\ [][\A p \in Procs :
            TimesOut(p) =>
                /\ DeadlinePassed(local[p].i)
                /\ \E h \in lockHolders : h.proc # p
                /\ pc'[p] = "sync_done"
                /\ UNCHANGED <<srcVars, wsVars, lockHolders>>]_vars

\* C21's case: a Sync has returned LOCKED while another Sync held the lock.
C21_SyncLocked ==
    \E p, q \in Procs :
        /\ Returned(p, "LOCKED")
        /\ Holds(q)

\* C22: when Sync has returned, whatever it returned, the caller holds the
\* session's lock no more, the lock is free, and an exclusive acquisition
\* made at once is granted.
C22_LockReleasedOnReturn ==
    \A p \in Procs :
        pc[p] = "sync_done" =>
            /\ ~Holds(p)
            /\ lockHolders = {}
            /\ \E h \in AcquireExclusive(lockHolders, p) : h.proc = p

\* C22's case: a Sync that had taken the lock has returned
\* CONFLICT_DETECTED.
C22_ReturnedConflict ==
    \E p \in Procs : Returned(p, "CONFLICT_DETECTED") /\ seen[p].persisted

\* A step of client p.
StepOf(p) == pc'[p] # pc[p]

C24_OriginalZipNeverModified ==
    /\ [](originalZip # NoFile => originalZip = OrigArchive)
    /\ [][originalZip' # originalZip
            => /\ originalZip' = NoFile /\ metadata' = NoMeta
               /\ \E p \in Procs : pc[p] = "close_delete"]_vars

\* C24's case: the workspace has been written to and synced, the source
\* then changed by another program, and original.zip is still there.
C24_AfterSyncAndExternalWrite ==
    /\ originalZip # NoFile
    /\ source = ExternalArchive
    /\ backups # NoBackups
    /\ contents # Extract(OrigArchive).tree
    /\ syncs > 0

\* The paths of a directory that hold a regular file or a directory.
Storable(tree) == { q \in Paths : tree.node[q] \in Bytes \cup { Dir } }

C26_PersistedAfterTwoSyncs ==
    (syncs > 0 /\ faults = 0 /\ \A p \in Procs : pc[p] = "idle")
        => /\ metadata.hash = ComputeZipHash(source)
           /\ metadata.synced > 0
           /\ metadata.state = "open"

\* C27: from the moment a Sync holds the lock to its return, the archive
\* that was at the source path then is at the source path or at S.bak.E;
\* between the rotation and the final rename the source path is absent and
\* S.bak.E holds it; and a crash of the process moves neither.
C27_PreSyncSourceKept ==
    /\ [](\A p \in Procs :
             seen[p].source # NoFile
                 => \/ source = seen[p].source
                    \/ backups[Bak] = seen[p].source)
    /\ [](\A p \in Procs :
             pc[p] = "sync_rename"
                 => source = NoFile /\ backups[Bak] = seen[p].source)
    /\ [][crashes' # crashes => UNCHANGED <<source, backups>>]_vars

\* C27's case: a Sync is between the rotation and the final rename, an
\* earlier backup moved up to the second generation.
C27_BetweenRotationAndRename ==
    \E p \in Procs :
        /\ pc[p] = "sync_rename"
        /\ seen[p].source # NoFile
        /\ backups[2] # NoFile
        /\ tempFile[p] # NoFile

\* C28: the Touch that ends a workspace operation on a session that is
\* still there leaves the persisted state, hash and last-synced-at as they are on disk (those a Sync wrote,
\* when one ran since the handle was loaded); it changes last-accessed-at
\* only.
C28_TouchChangesOnlyAccessed ==
    [][\A p \in Procs :
          (/\ pc[p] = "ws_touch" /\ pc'[p] = "idle" /\ crashes' = crashes
           /\ metadata # NoMeta)
              => /\ metadata'.state = metadata.state
                 /\ metadata'.hash = metadata.hash
                 /\ metadata'.synced = metadata.synced]_vars

\* C29: every session of the registry, from its creation to its close, is
\* in the list ListSessions returns, at every moment of a metadata rewrite:
\* no reader finds its metadata.json missing or empty, and the count
\* CreateSession compares with the limit is the number of sessions.
C29_SessionAlwaysListed ==
    /\ \A d \in DirNames :
          workspaces[d].exists
              => \E i \in 1 .. Len(ListSessions(workspaces)) :
                     ListSessions(workspaces)[i] = d
    /\ Len(ListSessions(workspaces))
           = Cardinality({ d \in DirNames : workspaces[d].exists })

\* C30: whenever a Sync that had the lock returns an error, the source
\* path holds the archive it held when the Sync took the lock and every
\* backup generation is as it was then, also after a rename of the
\* rotation or the final rename has failed.
C30_ErrorLeavesSourceAndBackups ==
    \A p \in Procs :
        (pc[p] = "sync_done" /\ local[p].err # "ok" /\ seen[p].record # NoMeta)
            => /\ source = seen[p].source
               /\ backups = seen[p].backups

\* C31: the persisted state of the session is open or syncing, and it is
\* syncing only while a Sync of the session holds the lock, or after a
\* process was killed.
C31_SyncingOnlyDuringSync ==
    metadata # NoMeta =>
        /\ metadata.state \in { "open", "syncing" }
        /\ metadata.state = "syncing"
               => \/ \E p \in Procs : Holds(p) /\ PerformsSync(op[p].kind)
                  \/ crashes > 0

\* Generation i of a backup chain: S.bak.E is the first, S.bak.i.E the i-th.
Generation(b, i) == IF i = 1 THEN b[Bak] ELSE b[i]

\* C32: when a Sync under rotation depth d returns without error, the first
\* generation holds the source the Sync found, every generation i from 2
\* to d holds what generation i-1 held before, and there is no generation
\* beyond d: what generation d held is discarded, nothing else.
C32_ShiftByOneGeneration ==
    \A p \in Procs :
        Returned(p, "ok") =>
            /\ Generation(backups, 1) = seen[p].source
            /\ \A i \in 2 .. cfg.depth :
                  Generation(backups, i) = Generation(seen[p].backups, i - 1)
            /\ \A i \in BackupIndex :
                  (i > 1 /\ i > cfg.depth) => Generation(backups, i) = NoFile

\* C33: once a later Sync of the session has returned, or the session has
\* been deleted (what prune does to it), no temp file of a killed Sync is
\* left beside the source.
C33_OrphanTempRemoved ==
    /\ \A p \in Procs : pc[p] = "sync_done" => orphans = 0
    /\ ~WorkspaceExists => orphans = 0

\* C34: CreateSession refuses a name with NAME_COLLISION only when a
\* workspace directory of that name exists; a name that is no directory
\* name passes the check, also when it is the prefix of a session's ID.
C34_CollisionOnlyOnSameName ==
    [][\A c \in Creators :
          (creating[c].pc = "check_name" /\ creating'[c].err = "NAME_COLLISION")
              => workspaces[creating[c].name].exists]_vars

\* C35: Extract leaves nothing half-done: when it returns nil every file
\* entry of the archive is in the destination, and when it returns the error
\* of an entry it could not write, the destination directory is gone, with
\* whatever the entries before had put there.
C35_NoPartialExtraction ==
    /\ extraction.status = "ok" =>
           \A i \in 1 .. Len(extraction.arc.entries) :
               LET dest == Join(Base, extraction.arc.entries[i].name)
               IN  Len(dest) > 1 =>
                       NodeAt(extraction.tree, SubSeq(dest, 2, Len(dest)))
                           # Absent
    /\ extraction.status = "IO" => extraction.tree = NoDir

\* A path the scanner must refuse: absolute, or with a ".." component, a
\* null byte or another control character.
UnsafePath(rel) ==
    \/ IsAbs(rel)
    \/ \E i \in 1 .. Len(rel) : rel[i] = ".." \/ rel[i] \in ControlNames

\* C36: list, tree, read, write, delete and grep refuse every unsafe path
\* before their first filesystem call, and the call leaves the tree as it
\* was; and no sequence of calls creates, changes or removes anything that
\* is not below contents/.
C36_UnsafePathsRefused ==
    /\ [](scanning.outside = {})
    /\ [][UnsafePath(scanning'.rel)
              => /\ ~scanning'.touched
                 /\ scanning'.status \in { "INVALID", "PATH_TRAVERSAL" }
                 /\ scanning'.tree = scanning.tree]_vars

\* C36's case: a delete of a path with ".." in it that names an existing
\* file of the tree was refused, after a write had gone through.
C36_DotDotDeleteRefused ==
    /\ scanning.op = "delete"
    /\ scanning.rel = <<"d", "..", "b">>
    /\ scanning.tree.node[<<"b">>] \in Bytes
    /\ ~scanning.touched

\* The codes of the typed errors; every other error of the model ("IO",
\* "PATH", "INVALID") is a plain error built with fmt.Errorf.
ErrorCodes ==
    { "SESSION_NOT_FOUND", "AMBIGUOUS_SESSION", "NO_SESSIONS", "ZIP_NOT_FOUND",
      "ZIP_INVALID", "ZIP_BOMB_DETECTED", "CONFLICT_DETECTED", "SYNC_FAILED",
      "PATH_TRAVERSAL", "PATH_NOT_FOUND", "LOCKED", "LIMIT_EXCEEDED",
      "NAME_COLLISION" }

\* errors.Code: the code of the typed error in the chain, "" when there is
\* none.
Code(err) == IF err \in ErrorCodes THEN err ELSE ""

\* errors.Is.
Is(err, code) == Code(err) = code

\* C37: when Create has read a source with an entry that leaves the
\* destination and has failed on it (not on an I/O fault before), the error
\* it returned has the code PATH_TRAVERSAL, and the workspace directory it
\* made is gone.
C37_EscapeIsPathTraversal ==
    \A c \in Creators :
        (/\ CreateFailed(c)
         /\ ~ValidateAllPaths(Base, EntryPaths(creating[c].observed))
         /\ creating[c].err # "IO")
            => /\ Is(creating[c].err, "PATH_TRAVERSAL")
               /\ ~workspaces[creating[c].dir].exists

\* The total uncompressed size the headers of the file entries declare.
RECURSIVE DeclaredTotal(_, _)
DeclaredTotal(entries, i) ==
    IF i = 0 THEN Wide(0)
    ELSE IF entries[i].dir THEN DeclaredTotal(entries, i - 1)
    ELSE Add(DeclaredTotal(entries, i - 1), entries[i].usize)

\* The archive is over one of the three limits.
OverLimits(arc) ==
    \/ Greater(DeclaredTotal(arc.entries, Len(arc.entries)),
               Wide(MaxExtractedSizeBytes))
    \/ Len(arc.entries) > MaxFileCount
    \/ \E i \in 1 .. Len(arc.entries) :
          /\ ~arc.entries[i].dir
          /\ arc.entries[i].csize # Wide(0)
          /\ RatioExceeds(arc.entries[i], MaxCompressionRatio)

\* C38: the pre-scan of Create rejects a readable archive exactly when it
\* is over one of the three limits, and then Create returns
\* ZIP_BOMB_DETECTED with no session ID taken and no workspace directory
\* touched.
C38_RejectedIffOverLimits ==
    [][\A c \in Creators :
          (/\ creating[c].pc = "scan"
           /\ creating'[c].pc # "scan"
           /\ IsArchive(source))
              => /\ OverLimits(source)
                     <=> creating'[c].err = "ZIP_BOMB_DETECTED"
                 /\ OverLimits(source)
                     => /\ creating'[c].pc = "done"
                        /\ workspaces' = workspaces
                        /\ issued' = issued]_vars

\* C39: a delete never removes contents/ itself: whatever path it is given,
\* with or without recursion, a contents/ that was there before the call is
\* there after it.
C39_DeleteKeepsContents ==
    [][(scanning'.op = "delete" /\ scanning.tree.exists)
           => scanning'.tree.exists]_vars

============================================================================
